---- MODULE Spec2Model ----
(***************************************************************************)
(* Event Diary (src/main.py): the hosted store's three tables, the         *)
(* DataManager operations over them, the per-session Streamlit state and   *)
(* the page handlers, as a state machine.                                  *)
(*                                                                         *)
(* Encoding.  Python's None is the integer -1 wherever the value is an id  *)
(* (ids start at 1), a day number, a limit, an offset or a duration.  A    *)
(* date is a day number; a timestamp is a tick number, TicksPerDay ticks   *)
(* to the day, so that the date portion of a timestamp is t \div           *)
(* TicksPerDay and date.isoformat() compared with a timestamp is the       *)
(* day's first tick.  Text is a sequence of characters.                    *)
(***************************************************************************)
EXTENDS Integers, Sequences, FiniteSets, TLC

VARIABLES
    mu_area,      \* table mu_area: rows [id, user_id]
    mu_category,  \* table mu_category: rows [id, user_id, area_id]
    mu_event,     \* table mu_event: rows EventRow
    ids,          \* the last id each table's sequence has given out
    q,            \* the last DataManager read call and what it returned
    pg,           \* a walk through the pages of one filtered list
    session,      \* st.session_state of every browser session
    client_session, \* the auth session held by the cached Supabase client
    out,          \* what the last step showed: a page handler's message
    bulk,         \* the last bulk import: its input and what it returned
    calls,        \* the auth and store calls the last page handler run made
                  \* for the interaction, in order
    raised,       \* those of them that raised (each is caught where it is
                  \* made)
    analytics,    \* what the last run of the analytics page computed
    view,         \* the statistics and the page the dashboard showed on its
                  \* last run after a page or filter interaction
    form          \* the form the last page handler run was submitted with

storeVars == <<mu_area, mu_category, mu_event, ids>>
appVars ==
    <<session, client_session, out, bulk, calls, raised, form, analytics,
      view>>
vars == <<mu_area, mu_category, mu_event, ids, q, pg, session, client_session,
          out, bulk, calls, raised, form, analytics, view>>

----------------------------------------------------------------------------
(* Bounds of the model *)

MaxEvents == 2
MaxAreas == 2
MaxCategories == 2

MaxDay == 1
MaxPageSize == 2
MaxRows == 2
TicksPerDay == 2

Users == {"u1", "u2"}
Sessions == {"s1", "s2"}
Days == 0..MaxDay
Timestamps == 0..(TicksPerDay * (MaxDay + 1) - 1)

None == -1

----------------------------------------------------------------------------
(* Python truthiness and dates *)

\* `if x:` for an int-or-None x: None and 0 are falsy
Truthy(x) == x # None /\ x # 0

\* `if d:` for a date-or-None d: every date is truthy
TruthyDate(d) == d # None

\* date.isoformat() as the store compares it with a timestamp column:
\* midnight of that day
isoformat(d) == d * TicksPerDay

\* the date portion of a timestamp
DateOf(t) == t \div TicksPerDay

\* timedelta(days=n) added to a date
timedelta(days) == days

----------------------------------------------------------------------------
(* Rows and filters *)

NoText == <<>>

EventRow(id, user_id, category_id, occurred_at) ==
    [id |-> id, user_id |-> user_id, category_id |-> category_id,
     occurred_at |-> occurred_at, comment |-> NoText,
     duration_minutes |-> None, data |-> None, created_at |-> "now",
     updated_at |-> "none"]

\* the filters dict; an absent key is the empty set, None or the empty text
Filters(category_ids, area_ids, date_from, date_to, search_text) ==
    [category_ids |-> category_ids, area_ids |-> area_ids,
     date_from |-> date_from, date_to |-> date_to, search_text |-> search_text]

NoFilters == Filters({}, {}, None, None, NoText)

\* `if filters:` -- an empty dict (or None) is falsy
HasFilters(filters) == filters # NoFilters

----------------------------------------------------------------------------
(* Session state *)

\* st.session_state as init_session_state first fills it (lines 364-404)
FreshSession ==
    [authenticated |-> FALSE, user |-> "none", user_id |-> "none",
     current_page |-> "dashboard",
     filter_areas |-> {}, filter_categories |-> {},
     filter_date_from |-> None, filter_date_to |-> None,
     filter_search |-> NoText,
     current_page_num |-> 1,
     last_area_id |-> None, last_category_id |-> None,
     editing_event_id |-> None, delete_confirm_id |-> None,
     show_redirect |-> FALSE, email_not_confirmed |-> FALSE]

\* is_email_confirmed without the look at email_confirmed_at
EveryUserConfirmed(user) == user # "none"

\* AuthManager.is_email_confirmed
is_email_confirmed(user) == user \in Users

\* a session signed in as user (lines 449-451)
SignedIn(user) ==
    [FreshSession EXCEPT !.authenticated = TRUE, !.user = user,
                         !.user_id = user]

\* init_session_state on a session state: the defaults are in place; an
\* unauthenticated session takes over the session the shared client holds
\* (lines 406-414)
init_session_state(st) ==
    IF ~st.authenticated /\ client_session # "none"
        /\ is_email_confirmed(client_session)
    THEN [st EXCEPT !.authenticated = TRUE, !.user = client_session,
                    !.user_id = client_session]
    ELSE st

\* the same once the handler has changed the session the shared client
\* holds to held (the run after st.rerun())
init_session_state_after(st, held) ==
    IF ~st.authenticated /\ held # "none" /\ is_email_confirmed(held)
    THEN [st EXCEPT !.authenticated = TRUE, !.user = held, !.user_id = held]
    ELSE st

\* what a handler run reports: the handler, the session, the message shown,
\* the count it reports and the number of warnings
Output(op, s, id, msg, count, warnings) ==
    [op |-> op, s |-> s, id |-> id, msg |-> msg, count |-> count,
     warnings |-> warnings]

NoOutput == Output("none", "s1", None, "", None, 0)

\* no form submitted
NoForm == [kind |-> "none"]

\* what analytics_page has made of the events it loaded: state is "none"
\* (not run), "empty" (no events: the page returns at line 1306), "raised"
\* (the page stopped with an exception) or "shown"
Analytics(state, s, events, total, unique_days, avg_per_day, by_weekday, by_area, by_category) ==
    [state |-> state, s |-> s, events |-> events, total |-> total,
     unique_days |-> unique_days, avg_per_day |-> avg_per_day,
     by_weekday |-> by_weekday, by_area |-> by_area,
     by_category |-> by_category]

\* what dashboard_page showed: the statistics of lines 633-640, the offset
\* of line 669, and whether the run stopped with an exception
View(s, total_events, total_pages, page_num, offset, raised_) ==
    [s |-> s, total_events |-> total_events, total_pages |-> total_pages,
     page_num |-> page_num, offset |-> offset, raised |-> raised_]

NoView == View("none", 0, 1, 1, 0, FALSE)

NoCounts == [k \in {} |-> 0]

NoAnalytics == Analytics("none", "s1", {}, 0, 0, 0, NoCounts, NoCounts, NoCounts)

----------------------------------------------------------------------------
(* DataManager: reads *)

\* get_user_categories(user_id, area_id); ok is the outcome of the backend call
get_user_categories(user_id, area_id, ok) ==
    IF ~ok THEN {}
    ELSE {c \in mu_category :
            /\ c.user_id = user_id
            /\ (Truthy(area_id) => c.area_id = area_id)}

\* get_user_areas(user_id)
get_user_areas(user_id, ok) ==
    IF ~ok THEN {} ELSE {a \in mu_area : a.user_id = user_id}

\* the category ids the area filter resolves to (lines 219-220)
AreaCatIds(user_id, filters, cats_ok) ==
    {c.id : c \in {c \in get_user_categories(user_id, None, cats_ok) :
                       c.area_id \in filters.area_ids}}

\* EventsQuery without the ownership constraint
EventsQueryAnyOwner(user_id, filters, cats_ok) ==
    {e \in mu_event :
        /\ (filters.category_ids # {} => e.category_id \in filters.category_ids)
        /\ (filters.area_ids # {} /\ AreaCatIds(user_id, filters, cats_ok) # {}
                => e.category_id \in AreaCatIds(user_id, filters, cats_ok))
        /\ (TruthyDate(filters.date_from)
                => e.occurred_at >= isoformat(filters.date_from))
        /\ (TruthyDate(filters.date_to)
                => e.occurred_at < isoformat(filters.date_to + timedelta(1)))}

\* EventsQuery with the end date itself as the exclusive bound
EventsQueryEndExclusive(user_id, filters, cats_ok) ==
    {e \in mu_event :
        /\ e.user_id = user_id
        /\ (filters.category_ids # {} => e.category_id \in filters.category_ids)
        /\ (filters.area_ids # {} /\ AreaCatIds(user_id, filters, cats_ok) # {}
                => e.category_id \in AreaCatIds(user_id, filters, cats_ok))
        /\ (TruthyDate(filters.date_from)
                => e.occurred_at >= isoformat(filters.date_from))
        /\ (TruthyDate(filters.date_to)
                => e.occurred_at < isoformat(filters.date_to))}

\* the predicate get_events builds (lines 210-230), as the rows it selects
EventsQuery(user_id, filters, cats_ok) ==
    {e \in mu_event :
        /\ e.user_id = user_id
        /\ (filters.category_ids # {} => e.category_id \in filters.category_ids)
        /\ (filters.area_ids # {} /\ AreaCatIds(user_id, filters, cats_ok) # {}
                => e.category_id \in AreaCatIds(user_id, filters, cats_ok))
        /\ (TruthyDate(filters.date_from)
                => e.occurred_at >= isoformat(filters.date_from))
        /\ (TruthyDate(filters.date_to)
                => e.occurred_at < isoformat(filters.date_to + timedelta(1)))}

\* the predicate get_event_count builds (lines 257-266)
CountQuery(user_id, filters) ==
    {e \in mu_event :
        /\ e.user_id = user_id
        /\ (filters.category_ids # {} => e.category_id \in filters.category_ids)
        /\ (TruthyDate(filters.date_from)
                => e.occurred_at >= isoformat(filters.date_from))
        /\ (TruthyDate(filters.date_to)
                => e.occurred_at < isoformat(filters.date_to + timedelta(1)))}

\* order("occurred_at", desc=True): the orders the store may answer in; rows
\* of equal occurred_at come in an order the query does not determine
RECURSIVE Perms(_)
Perms(S) ==
    IF S = {} THEN {<<>>}
    ELSE UNION {{<<x>> \o p : p \in Perms(S \ {x})} : x \in S}

OrderedDesc(S) ==
    {r \in Perms(S) :
        \A i \in 1..Len(r), j \in 1..Len(r) :
            i < j => r[i].occurred_at >= r[j].occurred_at}

Min(a, b) == IF a < b THEN a ELSE b

\* the rows of a list
RowSet(rows) == {rows[i] : i \in 1..Len(rows)}

\* the width of range(offset, offset + 9) when no limit is given (line 239)
DefaultRangeEnd == 9

\* limit(limit) and range(offset, end) applied to the ordered rows
\* (lines 236-239)
Window(rows, limit, offset) ==
    LET end == IF Truthy(limit) THEN offset + limit - 1
               ELSE offset + DefaultRangeEnd
        first == IF Truthy(offset) THEN offset ELSE 0
        count == IF Truthy(offset) THEN end - offset + 1
                 ELSE IF Truthy(limit) THEN limit ELSE Len(rows)
    IN  SubSeq(rows, first + 1, Min(Len(rows), first + count))

\* str.lower() on a character
LowerChar(ch) == IF ch = "A" THEN "a" ELSE IF ch = "B" THEN "b" ELSE ch
\* str.lower() left out
NoLower(text) == text

\* str.lower() on a text
lower(text) == [i \in 1..Len(text) |-> LowerChar(text[i])]

\* a null comment
NullText == <<"null">>

\* `x or ''`
OrEmpty(text) == IF text = NullText THEN NoText ELSE text

\* `needle in hay` on text
Contains(needle, hay) ==
    \E i \in 0..(Len(hay) - Len(needle)) :
        SubSeq(hay, i + 1, i + Len(needle)) = needle

\* the client-side text search (lines 245-247)
SearchFilter(rows, filters) ==
    IF filters.search_text # NoText
    THEN LET search_text == lower(filters.search_text)
             Keep(e) == Contains(search_text, lower(OrEmpty(e.comment)))
         IN  SelectSeq(rows, Keep)
    ELSE rows

\* the messages a read call reports with st.error: that of the except
\* clause of the call itself (lines 142-144, 177-180, 250-252, 270-272)
ReadErrors(fn, ok) ==
    IF ok THEN {}
    ELSE {CASE fn = "get_user_areas" -> "Error loading areas"
            [] fn = "get_user_categories" -> "Error loading categories"
            [] fn = "get_events" -> "Error loading events"
            [] fn = "get_event_count" -> "Error counting events"}

\* the messages get_events reports: its own, and that of the category
\* lookup it makes for an area filter (line 218)
get_events_errors(filters, cats_ok, ok) ==
    ReadErrors("get_events", ok)
    \cup (IF filters.area_ids # {}
          THEN ReadErrors("get_user_categories", cats_ok) ELSE {})

\* get_events(user_id, filters, limit, offset): the values it may return.
\* cats_ok and ok are the outcomes of its two backend calls, the category
\* lookup of the area filter and the event query itself.
get_events(user_id, filters, limit, offset, cats_ok, ok) ==
    IF ~ok THEN {<<>>}
    ELSE {SearchFilter(Window(r, limit, offset), filters) :
            r \in OrderedDesc(EventsQuery(user_id, filters, cats_ok))}

\* get_event_count(user_id, filters)
get_event_count(user_id, filters, ok) ==
    IF ~ok THEN 0 ELSE Cardinality(CountQuery(user_id, filters))

----------------------------------------------------------------------------
(* DataManager: writes.  Each is the table after the call; ok is the        *)
(* outcome of the backend call, and a failed call leaves the table as it    *)
(* was.  The tables carry no constraint of their own: a delete removes the  *)
(* rows its eq() filters select and nothing else.                           *)

\* add_area(user_id, area_name)
add_area(user_id, area_name, ok) ==
    IF ok
    THEN mu_area \cup {[id |-> ids.area + 1, user_id |-> user_id,
                        name |-> area_name]}
    ELSE mu_area

\* delete_area(area_id, user_id)
delete_area(area_id, user_id, ok) ==
    IF ok
    THEN {a \in mu_area : ~(a.id = area_id /\ a.user_id = user_id)}
    ELSE mu_area

\* add_category(user_id, category_name, area_id)
add_category(user_id, category_name, area_id, ok) ==
    IF ok
    THEN mu_category \cup {[id |-> ids.category + 1, user_id |-> user_id,
                            area_id |-> area_id, name |-> category_name]}
    ELSE mu_category

\* delete_category(category_id, user_id)
delete_category(category_id, user_id, ok) ==
    IF ok
    THEN {c \in mu_category : ~(c.id = category_id /\ c.user_id = user_id)}
    ELSE mu_category

\* add_event, if the row were stored although the insert raised
AddEventDespiteError(user_id, category_id, occurred_at, comment, duration_minutes, ok) ==
    mu_event \cup
        {[id |-> ids.event + 1, user_id |-> user_id,
          category_id |-> category_id, occurred_at |-> occurred_at,
          comment |-> comment,
          duration_minutes |->
              IF duration_minutes # None /\ duration_minutes > 0
              THEN duration_minutes ELSE None,
          data |-> None, created_at |-> "now", updated_at |-> "none"]}

\* add_event(user_id, category_id, occurred_at, comment, duration_minutes)
\* (the callers pass no data): duration_minutes is written only when it is
\* not None and positive
add_event(user_id, category_id, occurred_at, comment, duration_minutes, ok) ==
    IF ok
    THEN mu_event \cup
            {[id |-> ids.event + 1, user_id |-> user_id,
              category_id |-> category_id, occurred_at |-> occurred_at,
              comment |-> comment,
              duration_minutes |->
                  IF duration_minutes # None /\ duration_minutes > 0
                  THEN duration_minutes ELSE None,
              data |-> None, created_at |-> "now", updated_at |-> "none"]}
    ELSE mu_event

\* update_event(event_id, user_id, category_id, occurred_at, comment,
\* duration_minutes, data): the rows eq(id) and eq(user_id) select get the
\* new values and updated_at; duration_minutes is always written, data
\* only when it is given (lines 302-319). data is None or the duration the
\* dict {"duration_minutes": d} holds.
update_event(event_id, user_id, category_id, occurred_at, comment, duration_minutes, data, ok) ==
    IF ok
    THEN {IF e.id = event_id /\ e.user_id = user_id
          THEN [e EXCEPT !.category_id = category_id,
                         !.occurred_at = occurred_at,
                         !.comment = comment,
                         !.updated_at = "now",
                         !.data = IF Truthy(data) THEN data ELSE e.data,
                         !.duration_minutes =
                            IF duration_minutes # None /\ duration_minutes > 0
                            THEN duration_minutes ELSE None]
          ELSE e : e \in mu_event}
    ELSE mu_event

\* delete_event without the ownership constraint
DeleteEventAnyOwner(event_id, user_id, ok) ==
    IF ok THEN {e \in mu_event : e.id # event_id} ELSE mu_event

\* delete_event(event_id, user_id)
delete_event(event_id, user_id, ok) ==
    IF ok
    THEN {e \in mu_event : ~(e.id = event_id /\ e.user_id = user_id)}
    ELSE mu_event

\* an occurred_at text the store cannot read as a timestamp
Unparseable == -2

\* an event dict handed to bulk_add_events; a key the dict does not have
\* is "none", "absent" or None
EventDict(category_id, occurred_at, comment, duration_minutes, data, user_id) ==
    [category_id |-> category_id, occurred_at |-> occurred_at,
     comment |-> comment, duration_minutes |-> duration_minutes,
     data |-> data, user_id |-> user_id, created_at |-> "absent"]

\* the loop, if it kept a user_id the dict already has
StampKeepsUserId(events_data, user_id) ==
    [i \in 1..Len(events_data) |->
        [events_data[i] EXCEPT
            !.user_id = IF @ = "none" THEN user_id ELSE @,
            !.created_at = "now"]]

\* bulk_add_events, the loop (lines 346-350): every dict gets user_id and
\* created_at; a datetime becomes its isoformat, a text stays as it is
Stamp(events_data, user_id) ==
    [i \in 1..Len(events_data) |->
        [events_data[i] EXCEPT !.user_id = user_id, !.created_at = "now"]]

\* the rows an accepted insert adds
InsertedRows(payload) ==
    {[id |-> ids.event + i, user_id |-> payload[i].user_id,
      category_id |-> payload[i].category_id,
      occurred_at |-> payload[i].occurred_at,
      comment |-> payload[i].comment,
      duration_minutes |-> payload[i].duration_minutes,
      data |-> payload[i].data,
      created_at |-> payload[i].created_at,
      updated_at |-> "none"] : i \in 1..Len(payload)}

\* bulk_add_events(events_data, user_id): what it returns and the table
\* after it (lines 343-355); ok: the store takes the one insert of all the
\* dicts (line 352), otherwise the call raises and nothing is inserted
bulk_add_events(events_data, user_id, ok) ==
    LET payload == Stamp(events_data, user_id) IN
    IF ok
    THEN [success |-> TRUE, count |-> Len(events_data), error |-> "",
          table |-> mu_event \cup InsertedRows(payload)]
    ELSE [success |-> FALSE, count |-> None, error |-> "error",
          table |-> mu_event]

\* the record of a bulk import
Bulk(via, s, file, events_data, user_id, called, ok, result) ==
    [via |-> via, s |-> s, file |-> file, events_data |-> events_data,
     user_id |-> user_id, called |-> called, ok |-> ok,
     first_id |-> ids.event + 1,
     success |-> result.success, count |-> result.count,
     error |-> result.error]

NotCalled == [success |-> FALSE, count |-> None, error |-> ""]

NoBulk ==
    [via |-> "none", s |-> "s1", file |-> <<>>, events_data |-> <<>>,
     user_id |-> "u1", called |-> FALSE, ok |-> FALSE, first_id |-> 0,
     success |-> FALSE, count |-> None, error |-> ""]

\* strip, if it left the blanks in place
NoStrip(text) == text

\* str.strip()
RECURSIVE lstrip(_)
lstrip(text) ==
    IF text = <<>> THEN <<>>
    ELSE IF Head(text) = " " THEN lstrip(Tail(text)) ELSE text

RECURSIVE rstrip(_)
rstrip(text) ==
    IF text = <<>> THEN <<>>
    ELSE IF text[Len(text)] = " " THEN rstrip(SubSeq(text, 1, Len(text) - 1))
    ELSE text

strip(text) == rstrip(lstrip(text))

----------------------------------------------------------------------------
(* Read calls against a store drawn from a bounded set of contents *)

\* the new values an update_event call is given
UpdateArgs(category_id, occurred_at, comment, duration_minutes) ==
    [category_id |-> category_id, occurred_at |-> occurred_at,
     comment |-> comment, duration_minutes |-> duration_minutes]

NoArgs == UpdateArgs(None, None, NoText, None)

NoCall ==
    [fn |-> "none", user_id |-> "u1", filters |-> NoFilters, limit |-> None,
     offset |-> None, cats_ok |-> TRUE, ok |-> TRUE, rows |-> <<>>,
     count |-> None, found |-> {}, errors |-> {}, id |-> None,
     args |-> NoArgs]

\* u1 owns areas 1 and 2, u2 owns area 3
QueryAreas ==
    {[id |-> 1, user_id |-> "u1", name |-> <<"W">>],
     [id |-> 2, user_id |-> "u1", name |-> <<"W">>],
     [id |-> 3, user_id |-> "u2", name |-> <<"W">>]}

\* category 1 in area 1, category 2 in area 2 (when it exists: without it
\* area 2 is an area with no categories), category 3 of u2 in area 3
QueryCategories(with2) ==
    {[id |-> 1, user_id |-> "u1", area_id |-> 1, name |-> <<"W">>],
     [id |-> 3, user_id |-> "u2", area_id |-> 3, name |-> <<"W">>]}
    \cup (IF with2
          THEN {[id |-> 2, user_id |-> "u1", area_id |-> 2, name |-> <<"W">>]}
          ELSE {})

OwnerAndCategory == <<(<<"u1", 1>>), (<<"u1", 2>>), (<<"u2", 3>>)>>

\* up to MaxEvents events, ids 1..n; which id a row carries is nothing a read
\* depends on, so one numbering stands for each multiset of rows
QueryEvents ==
    LET Shape == (1..Len(OwnerAndCategory)) \X Timestamps
        Rank(s) == s[1] * (TicksPerDay * (MaxDay + 1)) + s[2]
    IN  UNION {{{EventRow(i, OwnerAndCategory[f[i][1]][1],
                            OwnerAndCategory[f[i][1]][2], f[i][2]) : i \in 1..n} :
                  f \in {g \in [1..n -> Shape] :
                            \A i \in 1..n, j \in 1..n :
                                i < j => Rank(g[i]) <= Rank(g[j])}} :
              n \in 0..MaxEvents}

\* the filters a call is made with
QueryFilters(user_id) ==
    {Filters(c, a, df, dt, NoText) :
        c \in (IF user_id = "u1" THEN SUBSET {1, 2} ELSE {{}}),
        a \in (IF user_id = "u1" THEN SUBSET {1, 2} ELSE {{}}),
        df \in {None} \cup Days, dt \in {None} \cup Days}

\* no page walk started
NoPaging ==
    [on |-> FALSE, user_id |-> "u1", filters |-> NoFilters, p |-> 1,
     page_num |-> 1, shown |-> <<>>]

InitQuery ==
    /\ mu_area = QueryAreas
    /\ \E with2 \in BOOLEAN : mu_category = QueryCategories(with2)
    /\ mu_event \in QueryEvents
    /\ \A e \in mu_event : \E c \in mu_category : c.id = e.category_id
    /\ ids = [area |-> 3, category |-> 3, event |-> Cardinality(mu_event)]
    /\ q = NoCall
    /\ pg = NoPaging
    /\ analytics = NoAnalytics
    /\ view = NoView
    /\ session = [s \in Sessions |-> SignedIn(IF s = "s1" THEN "u1" ELSE "u2")]
    /\ client_session = "u2"
    /\ out = NoOutput
    /\ bulk = NoBulk
    /\ calls = <<>>
    /\ raised = {}
    /\ form = NoForm

\* a call of get_events without limit and offset
CallGetEvents ==
    /\ q.fn = "none"
    /\ \E user_id \in Users, ok \in BOOLEAN, cats_ok \in BOOLEAN :
       \E filters \in QueryFilters(user_id) :
        /\ (filters.area_ids = {} \/ ~ok) => cats_ok
        /\ \E rows \in get_events(user_id, filters, None, None, cats_ok, ok) :
            q' = [fn |-> "get_events", user_id |-> user_id, filters |-> filters,
                  limit |-> None, offset |-> None, cats_ok |-> cats_ok,
                  ok |-> ok, rows |-> rows, count |-> None, found |-> {},
                  errors |-> get_events_errors(filters, cats_ok, ok),
                  id |-> None, args |-> NoArgs]
    /\ UNCHANGED <<storeVars, pg, appVars>>

\* a call of get_event_count
CallGetEventCount ==
    /\ q.fn = "none"
    /\ \E user_id \in Users, ok \in BOOLEAN :
       \E filters \in QueryFilters(user_id) :
            q' = [fn |-> "get_event_count", user_id |-> user_id,
                  filters |-> filters, limit |-> None, offset |-> None,
                  cats_ok |-> TRUE, ok |-> ok, rows |-> <<>>,
                  count |-> get_event_count(user_id, filters, ok),
                  found |-> {}, errors |-> ReadErrors("get_event_count", ok),
                  id |-> None, args |-> NoArgs]
    /\ UNCHANGED <<storeVars, pg, appVars>>

\* a call of get_user_areas
CallGetUserAreas ==
    /\ q.fn = "none"
    /\ \E user_id \in Users, ok \in BOOLEAN :
            q' = [NoCall EXCEPT !.fn = "get_user_areas", !.user_id = user_id,
                                !.ok = ok,
                                !.found = get_user_areas(user_id, ok),
                                !.errors = ReadErrors("get_user_areas", ok)]
    /\ UNCHANGED <<storeVars, pg, appVars>>

\* a call of get_user_categories, for all areas (None) or for one
CallGetUserCategories ==
    /\ q.fn = "none"
    /\ \E user_id \in Users, ok \in BOOLEAN,
          area_id \in {None} \cup {a.id : a \in mu_area} :
            q' = [NoCall EXCEPT !.fn = "get_user_categories",
                                !.user_id = user_id, !.ok = ok,
                                !.limit = area_id,
                                !.found = get_user_categories(user_id, area_id, ok),
                                !.errors = ReadErrors("get_user_categories", ok)]
    /\ UNCHANGED <<storeVars, pg, appVars>>

NextQuery ==
    \/ CallGetEvents
    \/ CallGetEventCount
    \/ CallGetUserAreas
    \/ CallGetUserCategories

SpecQuery == InitQuery /\ [][NextQuery]_vars

\* what st.error shows in the except clause of an event write
\* (lines 322, 331)
WriteErrors(fn, ok) ==
    IF ok THEN {}
    ELSE {CASE fn = "update_event" -> "Error updating event"
            [] fn = "delete_event" -> "Error deleting event"}

\* the event ids a write call is given: those in use and one that is not
EventIds == 1..(MaxEvents + 1)

\* a call of delete_event
CallDeleteEvent ==
    /\ q.fn = "none"
    /\ \E event_id \in EventIds, user_id \in Users, ok \in BOOLEAN :
        /\ mu_event' = delete_event(event_id, user_id, ok)
        /\ q' = [NoCall EXCEPT !.fn = "delete_event", !.user_id = user_id,
                               !.id = event_id, !.ok = ok,
                               !.errors = WriteErrors("delete_event", ok)]
    /\ UNCHANGED <<mu_area, mu_category, ids, pg, appVars>>

\* a call of update_event
CallUpdateEvent ==
    /\ q.fn = "none"
    /\ \E event_id \in EventIds, user_id \in Users, ok \in BOOLEAN,
          category_id \in {1, 3}, occurred_at \in Timestamps,
          duration_minutes \in {None, 0, 5}, data \in {None, 5} :
        /\ mu_event' = update_event(event_id, user_id, category_id,
                                    occurred_at, <<"W">>, duration_minutes,
                                    data, ok)
        /\ q' = [NoCall EXCEPT !.fn = "update_event", !.user_id = user_id,
                               !.id = event_id, !.ok = ok,
                               !.errors = WriteErrors("update_event", ok),
                               !.args = UpdateArgs(category_id, occurred_at,
                                                   <<"W">>, duration_minutes)]
    /\ UNCHANGED <<mu_area, mu_category, ids, pg, appVars>>

NextWrites == CallDeleteEvent \/ CallUpdateEvent

SpecWrites == InitQuery /\ [][NextWrites]_vars

-----------------------------------------------------------------------------
(* The form of edit_event_page: the page loads the event editing_event_id   *)
(* names for the session's user, shows its values, and on Save Changes      *)
(* calls update_event with the values of the widgets.                       *)

\* get_event_by_id(event_id, user_id): the rows .single() selects
get_event_by_id(event_id, user_id) ==
    {e \in mu_event : e.id = event_id /\ e.user_id = user_id}

\* the value the duration widget starts with (line 961)
current_duration(event) ==
    IF Truthy(event.duration_minutes) THEN event.duration_minutes ELSE 0

\* the Save Changes block (lines 978-992): event_data holds the duration or
\* None and is passed as data when the duration is truthy; update_event is
\* called without duration_minutes, which is then its default None
edit_event_submit(event_id, user_id, selected_category_id, occurred_at, comment, duration, ok) ==
    LET event_data == IF duration > 0 THEN duration ELSE None
    IN  update_event(event_id, user_id, selected_category_id, occurred_at,
                     comment, None,
                     IF Truthy(event_data) THEN event_data ELSE None, ok)

\* the durations of the stored events, and the ones typed into the widget
EditDurations == {None, 5}
EditInputs == {0, 5, 7}

\* the form as submitted: the event it was opened on, the duration typed
EditForm(event, duration, ok) ==
    [kind |-> "edit_event", event |-> event, duration |-> duration, ok |-> ok]

\* Save Changes on the form opened on an event of the user, the other
\* widgets left as the page filled them
EditFormSubmit ==
    /\ \E user_id \in Users, event_id \in EventIds, ok \in BOOLEAN :
        \E event \in get_event_by_id(event_id, user_id) :
        \E duration \in EditInputs \cup {current_duration(event)} :
            /\ mu_event' = edit_event_submit(event_id, user_id,
                                event.category_id, event.occurred_at,
                                event.comment, duration, ok)
            /\ form' = EditForm(event, duration, ok)
            /\ q' = [NoCall EXCEPT !.fn = "update_event", !.user_id = user_id,
                                   !.id = event_id, !.ok = ok,
                                   !.errors = WriteErrors("update_event", ok),
                                   !.args = UpdateArgs(event.category_id,
                                                event.occurred_at,
                                                event.comment, None)]
    /\ UNCHANGED <<mu_area, mu_category, ids, pg, session, client_session,
                   out, bulk, calls, raised, analytics, view>>

\* the stores the form is opened on: the events carry durations
EditFormEvents ==
    UNION {{{[e EXCEPT !.duration_minutes = d[e.id]] : e \in es} :
                d \in [{e.id : e \in es} -> EditDurations]} :
           es \in QueryEvents}

InitEditForm ==
    /\ mu_area = QueryAreas
    /\ mu_category = QueryCategories(TRUE)
    /\ mu_event \in EditFormEvents
    /\ ids = [area |-> 3, category |-> 3, event |-> Cardinality(mu_event)]
    /\ q = NoCall
    /\ pg = NoPaging
    /\ analytics = NoAnalytics
    /\ view = NoView
    /\ session = [s \in Sessions |-> SignedIn(IF s = "s1" THEN "u1" ELSE "u2")]
    /\ client_session = "u2"
    /\ out = NoOutput
    /\ bulk = NoBulk
    /\ calls = <<>>
    /\ raised = {}
    /\ form = NoForm

NextEditForm == EditFormSubmit

SpecEditForm == InitEditForm /\ [][NextEditForm]_vars

----------------------------------------------------------------------------
(* Walking the pages of a filtered list, as dashboard_page does: page       *)
(* page_num is get_events(limit = p, offset = (page_num - 1) * p), each     *)
(* page a query of its own against the unchanged store.                     *)

\* the offset of a page (line 669)
PageOffset(page_num, events_per_page) == (page_num - 1) * events_per_page

\* the pages are walked while the offset lies inside the filtered list
MorePages ==
    PageOffset(pg.page_num, pg.p) < Cardinality(EventsQuery(pg.user_id, pg.filters, TRUE))

StartPaging ==
    /\ ~pg.on
    /\ \E user_id \in Users, p \in 1..MaxPageSize :
       \E filters \in QueryFilters(user_id) :
            pg' = [on |-> TRUE, user_id |-> user_id, filters |-> filters,
                   p |-> p, page_num |-> 1, shown |-> <<>>]
    /\ UNCHANGED <<storeVars, q, appVars>>

FetchPage ==
    /\ pg.on
    /\ MorePages
    /\ \E rows \in get_events(pg.user_id, pg.filters, pg.p,
                               PageOffset(pg.page_num, pg.p), TRUE, TRUE) :
            pg' = [pg EXCEPT !.shown = pg.shown \o rows,
                             !.page_num = pg.page_num + 1]
    /\ UNCHANGED <<storeVars, q, appVars>>

NextPages == StartPaging \/ FetchPage

SpecPages == InitQuery /\ [][NextPages]_vars

\* C3: once every page has been fetched, the pages concatenated are the
\* full filtered list in descending occurred_at order, every event exactly
\* once (none skipped, none repeated).
C3_PagesReproduceList ==
    (pg.on /\ ~MorePages)
    => pg.shown \in OrderedDesc(EventsQuery(pg.user_id, pg.filters, TRUE))

\* the same when no two events of the list share an occurred_at
C3_DistinctTimes ==
    (pg.on /\ ~MorePages
        /\ \A e1, e2 \in EventsQuery(pg.user_id, pg.filters, TRUE) :
                e1 # e2 => e1.occurred_at # e2.occurred_at)
    => pg.shown \in OrderedDesc(EventsQuery(pg.user_id, pg.filters, TRUE))

----------------------------------------------------------------------------
(* The pages.  One action is one run of main() on a user interaction in     *)
(* session s: init_session_state, the sidebar, then the page current_page   *)
(* routes to, with the widget the user acted on.                            *)

\* the pages of the sidebar radio (lines 497-504)
SidebarPages ==
    {"dashboard", "add_event", "manage_data", "bulk_import", "analytics",
     "export"}

\* the text a name field is given
NameInputs == {<<>>, <<" ">>, <<"W">>}

\* the routing without the test of authenticated
RoutedWithoutLogin(st, page) == st.current_page = page

\* main() routes session state st to page (lines 1490-1512)
Routed(st, page) == st.authenticated /\ st.current_page = page

\* the sidebar radio is set to another page (lines 507-516)
Navigate(s) ==
    LET st == init_session_state(session[s]) IN
    /\ st.authenticated
    /\ \E selected_page \in SidebarPages :
        /\ selected_page # st.current_page
        /\ session' = [session EXCEPT
                          ![s] = [st EXCEPT !.current_page = selected_page]]
    /\ calls' = <<>>
    /\ raised' = {}
    /\ form' = NoForm
    /\ UNCHANGED <<storeVars, q, pg, analytics, view, client_session, out, bulk>>

\* manage_data_page: the add-area form is submitted (lines 1028-1035)
AddAreaSubmit(s) ==
    LET st == init_session_state(session[s]) IN
    /\ Routed(st, "manage_data")
    /\ \E new_area_name \in NameInputs, ok \in BOOLEAN :
        IF new_area_name = <<>> \/ strip(new_area_name) = <<>>
        THEN /\ out' = Output("add_area", s, None, "Area name cannot be empty", None, 0)
             /\ calls' = <<>>
             /\ raised' = {}
             /\ form' = [kind |-> "add_area", name |-> new_area_name]
             /\ UNCHANGED storeVars
        ELSE /\ ok => ids.area < MaxAreas
             /\ mu_area' = add_area(st.user_id, strip(new_area_name), ok)
             /\ ids' = IF ok THEN [ids EXCEPT !.area = @ + 1] ELSE ids
             /\ out' = Output("add_area", s, None,
                              IF ok THEN "Area added" ELSE "Error adding area",
                              None, 0)
             /\ calls' = <<"add_area">>
             /\ raised' = IF ok THEN {} ELSE {"add_area"}
             /\ form' = [kind |-> "add_area", name |-> new_area_name]
             /\ UNCHANGED <<mu_category, mu_event>>
    /\ session' = [session EXCEPT ![s] = st]
    /\ UNCHANGED <<q, pg, analytics, view, client_session, bulk>>

\* manage_data_page: the delete button of a listed area is clicked
\* (lines 1047-1060)
DeleteAreaClick(s) ==
    LET st == init_session_state(session[s]) IN
    /\ Routed(st, "manage_data")
    /\ \E area \in get_user_areas(st.user_id, TRUE),
          cats_ok \in BOOLEAN, ok \in BOOLEAN :
        LET cats == get_user_categories(st.user_id, area.id, cats_ok) IN
        IF cats # {}
        THEN /\ out' = Output("delete_area", s, area.id,
                              "Cannot delete area with categories", None, 0)
             /\ calls' = <<"get_user_categories">>
             /\ raised' = {}
             /\ form' = NoForm
             /\ UNCHANGED storeVars
        ELSE /\ mu_area' = delete_area(area.id, st.user_id, ok)
             /\ out' = Output("delete_area", s, area.id,
                              IF ok THEN "Area deleted" ELSE "Error deleting area",
                              None, 0)
             /\ calls' = <<"get_user_categories", "delete_area">>
             /\ raised' = (IF cats_ok THEN {} ELSE {"get_user_categories"})
                           \cup (IF ok THEN {} ELSE {"delete_area"})
             /\ form' = NoForm
             /\ UNCHANGED <<mu_category, mu_event, ids>>
    /\ session' = [session EXCEPT ![s] = st]
    /\ UNCHANGED <<q, pg, analytics, view, client_session, bulk>>

\* manage_data_page: the add-category form is submitted (lines 1067-1099)
AddCategorySubmit(s) ==
    LET st == init_session_state(session[s]) IN
    /\ Routed(st, "manage_data")
    /\ \E selected_area \in get_user_areas(st.user_id, TRUE),
          new_category_name \in NameInputs, ok \in BOOLEAN :
        IF new_category_name = <<>> \/ strip(new_category_name) = <<>>
        THEN /\ out' = Output("add_category", s, None,
                              "Category name cannot be empty", None, 0)
             /\ calls' = <<>>
             /\ raised' = {}
             /\ form' = [kind |-> "add_category", name |-> new_category_name]
             /\ UNCHANGED storeVars
        ELSE /\ ok => ids.category < MaxCategories
             /\ mu_category' = add_category(st.user_id, strip(new_category_name),
                                            selected_area.id, ok)
             /\ ids' = IF ok THEN [ids EXCEPT !.category = @ + 1] ELSE ids
             /\ out' = Output("add_category", s, None,
                              IF ok THEN "Category added"
                              ELSE "Error adding category", None, 0)
             /\ calls' = <<"add_category">>
             /\ raised' = IF ok THEN {} ELSE {"add_category"}
             /\ form' = [kind |-> "add_category", name |-> new_category_name]
             /\ UNCHANGED <<mu_area, mu_event>>
    /\ session' = [session EXCEPT ![s] = st]
    /\ UNCHANGED <<q, pg, analytics, view, client_session, bulk>>

\* manage_data_page: the delete button of a listed category is clicked
\* (lines 1104-1120)
DeleteCategoryClick(s) ==
    LET st == init_session_state(session[s]) IN
    /\ Routed(st, "manage_data")
    /\ \E area \in get_user_areas(st.user_id, TRUE), ok \in BOOLEAN :
       \E cat \in get_user_categories(st.user_id, area.id, TRUE) :
        /\ mu_category' = delete_category(cat.id, st.user_id, ok)
        /\ out' = Output("delete_category", s, cat.id,
                         IF ok THEN "Category deleted"
                         ELSE "Error deleting category", None, 0)
        /\ calls' = <<"delete_category">>
        /\ raised' = IF ok THEN {} ELSE {"delete_category"}
        /\ form' = NoForm
    /\ session' = [session EXCEPT ![s] = st]
    /\ UNCHANGED <<mu_area, mu_event, ids, q, pg, analytics, view, client_session, bulk>>

\* what the add-event form is given
FormTimestamps == {0}
FormDurations == {0, 5}
FormComments == {NoText}

\* add_event_page: the form is submitted with Add Event (lines 729-859)
AddEventSubmit(s) ==
    LET st == init_session_state(session[s]) IN
    /\ Routed(st, "add_event")
    /\ \E selected_area \in get_user_areas(st.user_id, TRUE),
          cats_ok \in BOOLEAN, ok \in BOOLEAN,
          occurred_at \in FormTimestamps, comment \in FormComments,
          duration \in FormDurations :
        LET categories ==
                get_user_categories(st.user_id, selected_area.id, cats_ok)
        IN
        IF categories = {}
        THEN /\ out' = Output("add_event", s, None, "Please select a category",
                              None, 0)
             /\ calls' = <<>>
             /\ raised' = {}
             /\ form' = [kind |-> "add_event", selected_category_id |-> None]
             /\ session' = [session EXCEPT ![s] = st]
             /\ UNCHANGED storeVars
        ELSE \E selected_category \in categories :
             /\ ok => ids.event < MaxEvents
             /\ mu_event' = add_event(st.user_id, selected_category.id,
                                      occurred_at, comment,
                                      IF duration > 0 THEN duration ELSE None,
                                      ok)
             /\ ids' = IF ok THEN [ids EXCEPT !.event = @ + 1] ELSE ids
             /\ out' = Output("add_event", s, None,
                              IF ok THEN "Event added" ELSE "Error adding event",
                              None, 0)
             /\ calls' = <<"add_event">>
             /\ raised' = IF ok THEN {} ELSE {"add_event"}
             /\ form' = [kind |-> "add_event",
                         selected_category_id |-> selected_category.id]
             /\ session' = [session EXCEPT ![s] =
                    IF ok
                    THEN [st EXCEPT !.last_area_id = selected_area.id,
                                    !.last_category_id = selected_category.id,
                                    !.show_redirect = TRUE]
                    ELSE st]
             /\ UNCHANGED <<mu_area, mu_category>>
    /\ UNCHANGED <<q, pg, analytics, view, client_session, bulk>>

\* the page size of the dashboard (line 629)
events_per_page == 10

\* the filters dict dashboard_page builds from the session (lines 612-623)
SessionFilters(st) ==
    Filters(st.filter_categories, st.filter_areas, st.filter_date_from,
            st.filter_date_to, st.filter_search)

\* the events dashboard_page may list for the session (lines 668-670)
Listed(st) ==
    UNION {RowSet(rows) :
            rows \in get_events(st.user_id, SessionFilters(st), events_per_page,
                                PageOffset(st.current_page_num, events_per_page),
                                TRUE, TRUE)}

\* the row, if it showed Confirm whatever the pending-delete flag is
ConfirmShownAlways(st, event_id) == TRUE

\* the row of an event shows Confirm instead of Delete (line 703)
ConfirmShown(st, event_id) == st.delete_confirm_id = event_id

\* navigation_sidebar on a run in which the user does not touch the radio
\* (lines 507-516): the radio stands on current_page when that is one of its
\* pages and on its first option otherwise, and current_page is set to the
\* radio's page when the two differ
navigation_sidebar(st) ==
    LET selected_page == IF st.current_page \in SidebarPages
                         THEN st.current_page ELSE "dashboard"
    IN  IF selected_page # st.current_page
        THEN [st EXCEPT !.current_page = selected_page]
        ELSE st

\* dashboard_page: Edit is clicked on a listed event (lines 696-699), and the
\* script runs again: main() runs the sidebar before it routes
\* (lines 1488-1493)
EditClick(s) ==
    LET st == init_session_state(session[s]) IN
    /\ Routed(st, "dashboard")
    /\ \E event \in Listed(st) :
        /\ session' = [session EXCEPT ![s] =
                navigation_sidebar([st EXCEPT !.editing_event_id = event.id,
                                              !.current_page = "edit_event"])]
        /\ out' = Output("edit_click", s, event.id, "", None, 0)
        /\ calls' = <<>>
        /\ raised' = {}
        /\ form' = NoForm
    /\ UNCHANGED <<storeVars, q, pg, analytics, view, client_session, bulk>>

\* dashboard_page: Delete is clicked on a listed event (lines 709-712)
DeleteClick(s) ==
    LET st == init_session_state(session[s]) IN
    /\ Routed(st, "dashboard")
    /\ \E event \in Listed(st) :
        /\ ~ConfirmShown(st, event.id)
        /\ session' = [session EXCEPT
                          ![s] = [st EXCEPT !.delete_confirm_id = event.id]]
        /\ out' = Output("delete_click", s, event.id, "", None, 0)
        /\ calls' = <<>>
        /\ raised' = {}
        /\ form' = NoForm
    /\ UNCHANGED <<storeVars, q, pg, analytics, view, client_session, bulk>>

\* dashboard_page: Confirm is clicked on the pending event (lines 703-708)
ConfirmClick(s) ==
    LET st == init_session_state(session[s]) IN
    /\ Routed(st, "dashboard")
    /\ \E event \in Listed(st), ok \in BOOLEAN :
        /\ ConfirmShown(st, event.id)
        /\ mu_event' = delete_event(event.id, st.user_id, ok)
        /\ session' = [session EXCEPT ![s] =
                IF ok THEN [st EXCEPT !.delete_confirm_id = None] ELSE st]
        /\ out' = Output("confirm_delete", s, event.id,
                         IF ok THEN "Event deleted" ELSE "Error deleting event",
                         None, 0)
        /\ calls' = <<"delete_event">>
        /\ raised' = IF ok THEN {} ELSE {"delete_event"}
        /\ form' = NoForm
    /\ UNCHANGED <<mu_area, mu_category, ids, q, pg, analytics, view, client_session, bulk>>

\* a cell of the uploaded CSV as pandas reads it: a number, a text that is
\* no number, or an empty cell (NaN); in the occurred_at column "num" is a
\* well-formed timestamp text and val its tick
Num(v) == [kind |-> "num", val |-> v]
Txt == [kind |-> "text", val |-> None]
NaN == [kind |-> "nan", val |-> None]

\* str() of an empty cell
NanText == <<"n", "a", "n">>

CsvRow(category_id, occurred_at, comment, duration_minutes) ==
    [category_id |-> category_id, occurred_at |-> occurred_at,
     comment |-> comment, duration_minutes |-> duration_minutes]

\* the rows an uploaded file is made of: a good row without and one with a
\* duration, and one row for each cell that can be wrong
CsvRows ==
    {CsvRow(Num(1), Num(0), NanText, NaN),
     CsvRow(Num(2), Num(1), NanText, Num(5)),
     CsvRow(Txt, Num(0), NanText, NaN),
     CsvRow(Num(1), Txt, NanText, NaN),
     CsvRow(Num(1), Num(0), NanText, Txt)}

CsvFiles == UNION {[1..n -> CsvRows] : n \in 1..MaxRows}

\* int(x) raises (lines 1183, 1189)
IntRaises(cell) == cell.kind # "num"

\* the try block of a row raises (lines 1181-1193): int() of the category
\* id, or int() of a duration that is there
RowRaises(row) ==
    \/ IntRaises(row.category_id)
    \/ (row.duration_minutes.kind # "nan" /\ IntRaises(row.duration_minutes))

\* the event dict of a row (lines 1182-1189): occurred_at is passed on as
\* the cell holds it
RowDict(row) ==
    EventDict(row.category_id.val,
              IF row.occurred_at.kind = "num" THEN row.occurred_at.val
              ELSE Unparseable,
              row.comment, None,
              IF row.duration_minutes.kind # "nan"
              THEN row.duration_minutes.val ELSE None,
              "none")

\* the loop over the rows (lines 1178-1193)
RECURSIVE ParseRows(_)
ParseRows(file) ==
    IF file = <<>> THEN <<>>
    ELSE IF RowRaises(Head(file)) THEN ParseRows(Tail(file))
    ELSE <<RowDict(Head(file))>> \o ParseRows(Tail(file))

\* bulk_import_page: Import All Events is clicked on an uploaded file
\* (lines 1176-1206)
ImportCSV(s) ==
    LET st == init_session_state(session[s]) IN
    /\ Routed(st, "bulk_import")
    /\ \E file \in CsvFiles, ok \in BOOLEAN :
        LET events_data == ParseRows(file)
            warnings == Len(file) - Len(events_data)
            result == bulk_add_events(events_data, st.user_id, ok)
        IN
        IF events_data # <<>>
        THEN /\ mu_event' = result.table
             /\ ids' = IF result.success
                       THEN [ids EXCEPT !.event = @ + Len(events_data)]
                       ELSE ids
             /\ out' = Output("import_csv", s, None,
                              IF result.success THEN "Successfully imported"
                              ELSE "Import failed", result.count, warnings)
             /\ bulk' = Bulk("csv", s, file, events_data, st.user_id, TRUE,
                             ok, result)
             /\ calls' = <<"bulk_add_events">>
             /\ raised' = IF ok THEN {} ELSE {"bulk_add_events"}
             /\ form' = NoForm
             /\ UNCHANGED <<mu_area, mu_category>>
        ELSE /\ out' = Output("import_csv", s, None,
                              "No valid events to import", None, warnings)
             /\ bulk' = Bulk("csv", s, file, events_data, st.user_id, FALSE,
                             ok, NotCalled)
             /\ calls' = <<>>
             /\ raised' = {}
             /\ form' = NoForm
             /\ UNCHANGED storeVars
    /\ session' = [session EXCEPT ![s] = st]
    /\ UNCHANGED <<q, pg, analytics, view, client_session>>

\* bulk_import_page: the manual form is submitted with Add All Events
\* (lines 1216-1277)
ManualBulk(s) ==
    LET st == init_session_state(session[s]) IN
    /\ Routed(st, "bulk_import")
    /\ \E cats_ok \in BOOLEAN, ok \in BOOLEAN :
        LET categories == get_user_categories(st.user_id, None, cats_ok) IN
        /\ categories # {}
        /\ \E num_events \in 1..MaxRows :
           \E cat_id \in [1..num_events -> {c.id : c \in categories}],
              occurred_at \in [1..num_events -> FormTimestamps],
              duration \in [1..num_events -> FormDurations] :
            LET events_to_add ==
                    [i \in 1..num_events |->
                        EventDict(cat_id[i], occurred_at[i], NoText,
                                  IF duration[i] > 0 THEN duration[i] ELSE None,
                                  None, "none")]
                result == bulk_add_events(events_to_add, st.user_id, ok)
            IN
            /\ mu_event' = result.table
            /\ ids' = IF result.success
                      THEN [ids EXCEPT !.event = @ + num_events]
                      ELSE ids
            /\ out' = Output("manual_bulk", s, None,
                             IF result.success THEN "Successfully added"
                             ELSE "Failed to add events", result.count, 0)
            /\ bulk' = Bulk("manual", s, <<>>, events_to_add, st.user_id,
                            TRUE, ok, result)
            /\ calls' = <<"bulk_add_events">>
            /\ raised' = IF ok THEN {} ELSE {"bulk_add_events"}
            /\ form' = NoForm
    /\ session' = [session EXCEPT ![s] = st]
    /\ UNCHANGED <<mu_area, mu_category, q, pg, analytics, view, client_session>>

\* the accounts: the users, whose email is confirmed, and one account
\* whose email is not
Unconfirmed == "u0"
Accounts == Users \cup {Unconfirmed}

\* what the email field is given: nothing ("none") or the email of an account
EmailInputs == {"none"} \cup Accounts

\* what the password field of the sign-in form is given: nothing, the
\* password of the account, or another text
PasswordInputs == {"", "good", "bad"}

\* AuthManager.sign_in (lines 93-102): the user of the response, "none" for
\* a response without a user or the error dict; ok is the outcome of the
\* auth call for right credentials
sign_in(email, password, ok) ==
    IF ok /\ email \in Accounts /\ password = "good" THEN email ELSE "none"

\* a run of main() without an interaction of its own: the page is opened or
\* reloaded (lines 1474-1514)
Load(s) ==
    /\ session' = [session EXCEPT ![s] = init_session_state(session[s])]
    /\ out' = Output("load", s, None, "", None, 0)
    /\ calls' = <<>>
    /\ raised' = {}
    /\ form' = NoForm
    /\ UNCHANGED <<storeVars, q, pg, analytics, view, client_session, bulk>>

\* login_page: the sign-in form is submitted (lines 440-462)
SignInSubmit(s) ==
    LET st == init_session_state(session[s]) IN
    /\ ~st.authenticated
    /\ \E email \in EmailInputs, password \in PasswordInputs, ok \in BOOLEAN :
        IF email = "none" \/ password = ""
        THEN /\ out' = Output("sign_in", s, None,
                              "Please enter both email and password", None, 0)
             /\ calls' = <<>>
             /\ raised' = {}
             /\ form' = [kind |-> "sign_in", email |-> email,
                         password |-> password]
             /\ session' = [session EXCEPT ![s] = st]
             /\ UNCHANGED client_session
        ELSE LET user == sign_in(email, password, ok) IN
             /\ calls' = <<"sign_in">>
             /\ raised' = IF user # "none" THEN {} ELSE {"sign_in"}
             /\ form' = [kind |-> "sign_in", email |-> email,
                         password |-> password]
             /\ client_session' = IF user # "none" THEN user ELSE client_session
             /\ IF user # "none"
                THEN IF is_email_confirmed(user)
                     THEN /\ session' = [session EXCEPT ![s] =
                                [st EXCEPT !.authenticated = TRUE,
                                           !.user = user, !.user_id = user]]
                          /\ out' = Output("sign_in", s, None,
                                           "Successfully signed in", None, 0)
                     ELSE /\ session' = [session EXCEPT ![s] =
                                [st EXCEPT !.email_not_confirmed = TRUE]]
                          /\ out' = Output("sign_in", s, None,
                                           "Please confirm your email address",
                                           None, 0)
                ELSE /\ session' = [session EXCEPT ![s] = st]
                     /\ out' = Output("sign_in", s, None, "Sign in failed",
                                      None, 0)
    /\ UNCHANGED <<storeVars, q, pg, analytics, view, bulk>>

\* the least length of a password (line 474)
MinPasswordLen == 6

\* a text of n characters ch
Repeat(ch, n) == [i \in 1..n |-> ch]

\* what the fields of the registration form are given
RegisterEmails == {"none", "new"}
RegisterNames == {<<>>, <<"W">>}
RegisterPasswords ==
    {<<>>, Repeat("a", MinPasswordLen - 1), Repeat("a", MinPasswordLen),
     Repeat("b", MinPasswordLen)}

\* login_page: the registration form is submitted (lines 464-486); a
\* sign_up leaves the new account waiting for the confirmation of its email
RegisterSubmit(s) ==
    LET st == init_session_state(session[s]) IN
    /\ ~st.authenticated
    /\ \E email \in RegisterEmails, full_name \in RegisterNames,
          password \in RegisterPasswords,
          password_confirm \in RegisterPasswords, ok \in BOOLEAN :
        /\ form' = [kind |-> "register", email |-> email,
                    full_name |-> full_name, password |-> password,
                    password_confirm |-> password_confirm]
        /\ IF email = "none" \/ full_name = <<>> \/ password = <<>>
           THEN /\ out' = Output("register", s, None,
                                 "Please fill in all fields", None, 0)
                /\ calls' = <<>>
                /\ raised' = {}
           ELSE IF password # password_confirm
           THEN /\ out' = Output("register", s, None,
                                 "Passwords do not match", None, 0)
                /\ calls' = <<>>
                /\ raised' = {}
           ELSE IF Len(password) < MinPasswordLen
           THEN /\ out' = Output("register", s, None,
                                 "Password must be at least 6 characters",
                                 None, 0)
                /\ calls' = <<>>
                /\ raised' = {}
           ELSE /\ out' = Output("register", s, None,
                                 IF ok THEN "Registration successful"
                                 ELSE "Registration failed", None, 0)
                /\ calls' = <<"sign_up">>
                /\ raised' = IF ok THEN {} ELSE {"sign_up"}
    /\ session' = [session EXCEPT ![s] = st]
    /\ UNCHANGED <<storeVars, q, pg, analytics, view, client_session, bulk>>

\* navigation_sidebar: Sign Out is clicked (lines 523-528): the shared
\* client signs out, every key of the session state is deleted, and the
\* script runs again
SignOutClick(s) ==
    LET st == init_session_state(session[s]) IN
    /\ st.authenticated
    /\ \E ok \in BOOLEAN :
        LET held == IF ok THEN "none" ELSE client_session IN
        /\ client_session' = held
        /\ session' = [session EXCEPT
                          ![s] = init_session_state_after(FreshSession, held)]
        /\ raised' = IF ok THEN {} ELSE {"sign_out"}
    /\ out' = Output("sign_out", s, None, "", None, 0)
    /\ calls' = <<"sign_out">>
    /\ form' = NoForm
    /\ UNCHANGED <<storeVars, q, pg, analytics, view, bulk>>

\* two browser sessions are opened on the app: nobody is signed in
InitAuth ==
    /\ mu_area = {}
    /\ mu_category = {}
    /\ mu_event = {}
    /\ ids = [area |-> 0, category |-> 0, event |-> 0]
    /\ q = NoCall
    /\ pg = NoPaging
    /\ analytics = NoAnalytics
    /\ view = NoView
    /\ session = [s \in Sessions |-> FreshSession]
    /\ client_session = "none"
    /\ out = NoOutput
    /\ bulk = NoBulk
    /\ calls = <<>>
    /\ raised = {}
    /\ form = NoForm

NextAuth ==
    \E s \in Sessions :
        \/ Load(s)
        \/ SignInSubmit(s)
        \/ SignOutClick(s)
        \/ Navigate(s)

SpecAuth == InitAuth /\ [][NextAuth]_vars

\* the DataManager reads a page makes each time it is drawn, whatever the
\* store holds (lines 544-545, 626, 670, 730, 1040, 1067, 1216, 1303);
\* login_page and export_page make none
PageReads(page) ==
    CASE page = "dashboard" -> <<"get_user_areas", "get_user_categories",
                                 "get_event_count", "get_events">>
      [] page = "add_event" -> <<"get_user_areas">>
      [] page = "manage_data" -> <<"get_user_areas", "get_user_areas">>
      [] page = "bulk_import" -> <<"get_user_categories">>
      [] page = "analytics" -> <<"get_events">>
      [] OTHER -> <<>>

\* the reads of a page as q records them: made for user_id
PageCall(user_id, reads) ==
    [NoCall EXCEPT !.fn = IF reads = <<>> THEN "none" ELSE "page",
                   !.user_id = user_id]

\* a run of main() that draws a page (lines 1474-1514): the login page for
\* a session that is not authenticated, otherwise the sidebar and the page
\* current_page names, which reads the store for the session's user_id
Show(s) ==
    LET st == init_session_state(session[s])
        shown == IF st.authenticated THEN navigation_sidebar(st) ELSE st
        page == IF \E p \in SidebarPages : Routed(shown, p)
                THEN shown.current_page ELSE "login"
    IN  /\ session' = [session EXCEPT ![s] = shown]
        /\ out' = Output("show", s, None, page, None, 0)
        /\ calls' = PageReads(page)
        /\ q' = PageCall(shown.user_id, PageReads(page))
        /\ raised' = {}
        /\ form' = NoForm
        /\ UNCHANGED <<storeVars, pg, analytics, view, client_session, bulk>>

\* two browser sessions that sign in and out and are shown their pages;
\* the first one goes through the pages and adds areas
NextGuard ==
    \/ \E s \in Sessions :
            \/ Show(s)
            \/ SignInSubmit(s)
            \/ SignOutClick(s)
    \/ \E s \in {"s1"} :
            \/ Navigate(s)
            \/ AddAreaSubmit(s)

SpecGuard == InitAuth /\ [][NextGuard]_vars

\* the forms that validate their input, from the sign-in on, filled in
\* in one browser session
NextForms ==
    \E s \in {"s1"} :
        \/ SignInSubmit(s)
        \/ RegisterSubmit(s)
        \/ Navigate(s)
        \/ AddAreaSubmit(s)
        \/ AddCategorySubmit(s)
        \/ AddEventSubmit(s)

SpecForms == InitAuth /\ [][NextForms]_vars

\* both sessions signed in (s1 as u1, s2 as u2) and on page
OnPage(page) ==
    [s \in Sessions |->
        [SignedIn(IF s = "s1" THEN "u1" ELSE "u2") EXCEPT !.current_page = page]]

\* the Manage page on an empty store
InitManage ==
    /\ mu_area = {}
    /\ mu_category = {}
    /\ mu_event = {}
    /\ ids = [area |-> 0, category |-> 0, event |-> 0]
    /\ q = NoCall
    /\ pg = NoPaging
    /\ analytics = NoAnalytics
    /\ view = NoView
    /\ session = OnPage("manage_data")
    /\ client_session = "u2"
    /\ out = NoOutput
    /\ bulk = NoBulk
    /\ calls = <<>>
    /\ raised = {}
    /\ form = NoForm

NextManage ==
    \E s \in Sessions :
        \/ Navigate(s)
        \/ AddAreaSubmit(s)
        \/ DeleteAreaClick(s)
        \/ AddCategorySubmit(s)
        \/ DeleteCategoryClick(s)

SpecManage == InitManage /\ [][NextManage]_vars

\* the dashboard on a store with areas and categories and no event yet
InitDashboard ==
    /\ mu_area = QueryAreas
    /\ mu_category = QueryCategories(TRUE)
    /\ mu_event = {}
    /\ ids = [area |-> 3, category |-> 3, event |-> 0]
    /\ q = NoCall
    /\ pg = NoPaging
    /\ analytics = NoAnalytics
    /\ view = NoView
    /\ session = OnPage("dashboard")
    /\ client_session = "u2"
    /\ out = NoOutput
    /\ bulk = NoBulk
    /\ calls = <<>>
    /\ raised = {}
    /\ form = NoForm

NextDashboard ==
    \E s \in Sessions :
        \/ Navigate(s)
        \/ AddEventSubmit(s)
        \/ DeleteClick(s)
        \/ ConfirmClick(s)

SpecDashboard == InitDashboard /\ [][NextDashboard]_vars

\* the dashboard with its Edit button
NextEditClick ==
    \E s \in Sessions :
        \/ Navigate(s)
        \/ AddEventSubmit(s)
        \/ EditClick(s)

SpecEditClick == InitDashboard /\ [][NextEditClick]_vars

\* user u1 (session s1) with one area, one category in it and one event
InitEdits ==
    /\ mu_area = {[id |-> 1, user_id |-> "u1", name |-> <<"W">>]}
    /\ mu_category = {[id |-> 1, user_id |-> "u1", area_id |-> 1,
                       name |-> <<"W">>]}
    /\ mu_event = {EventRow(1, "u1", 1, 0)}
    /\ ids = [area |-> 1, category |-> 1, event |-> 1]
    /\ q = NoCall
    /\ pg = NoPaging
    /\ analytics = NoAnalytics
    /\ view = NoView
    /\ session = OnPage("dashboard")
    /\ client_session = "u2"
    /\ out = NoOutput
    /\ bulk = NoBulk
    /\ calls = <<>>
    /\ raised = {}
    /\ form = NoForm

\* every write the pages make, in one browser session, and update_event,
\* called as the edit form calls it (line 985, no duration_minutes) on the
\* event of the initial store before any page has written
NextEdits ==
    \/ \E s \in {"s1"} :
        \/ Navigate(s)
        \/ AddAreaSubmit(s)
        \/ DeleteAreaClick(s)
        \/ AddCategorySubmit(s)
        \/ DeleteCategoryClick(s)
        \/ AddEventSubmit(s)
        \/ DeleteClick(s)
        \/ ConfirmClick(s)
    \/ /\ out = NoOutput
       /\ CallUpdateEvent
       /\ q'.user_id = "u1" /\ q'.id = 1
       /\ q'.args = UpdateArgs(1, 1, <<"W">>, None)

SpecEdits == InitEdits /\ [][NextEdits]_vars

\* the event dicts a direct call of bulk_add_events by user_id is given, in
\* a category of the caller: with or without a user_id of their own
BulkDicts(user_id) ==
    {EventDict(IF user_id = "u1" THEN 1 ELSE 3, t, NoText, None, None, u) :
        t \in {0, Unparseable}, u \in {"none"} \cup Users}

BulkInputs(user_id) == UNION {[1..n -> BulkDicts(user_id)] : n \in 1..MaxRows}

\* a call of bulk_add_events
CallBulkAddEvents ==
    \E user_id \in Users, ok \in BOOLEAN :
    \E events_data \in BulkInputs(user_id) :
        LET result == bulk_add_events(events_data, user_id, ok) IN
        /\ mu_event' = result.table
        /\ ids' = IF result.success
                  THEN [ids EXCEPT !.event = @ + Len(events_data)]
                  ELSE ids
        /\ bulk' = Bulk("call", "s1", <<>>, events_data, user_id, TRUE, ok,
                        result)
        /\ out' = NoOutput
        /\ calls' = <<>>
        /\ raised' = {}
        /\ form' = NoForm
        /\ UNCHANGED <<mu_area, mu_category, q, pg, analytics, view, session, client_session>>

\* the Bulk Import page on a store with areas and categories, with no
\* event or with one
InitBulk ==
    /\ mu_area = QueryAreas
    /\ \E with2 \in BOOLEAN : mu_category = QueryCategories(with2)
    /\ mu_event \in {{}, {EventRow(1, "u1", 1, 0)}}
    /\ ids = [area |-> 3, category |-> 3, event |-> Cardinality(mu_event)]
    /\ q = NoCall
    /\ pg = NoPaging
    /\ analytics = NoAnalytics
    /\ view = NoView
    /\ session = OnPage("bulk_import")
    /\ client_session = "u2"
    /\ out = NoOutput
    /\ bulk = NoBulk
    /\ calls = <<>>
    /\ raised = {}
    /\ form = NoForm

\* one bulk import on each of these stores
NextBulk ==
    \/ bulk.via = "none" /\ CallBulkAddEvents
    \/ \E s \in Sessions :
        \/ bulk.via = "none" /\ ImportCSV(s)
        \/ bulk.via = "none" /\ ManualBulk(s)

SpecBulk == InitBulk /\ [][NextBulk]_vars

\* export_page: the 'Duration (min)' of the row of event e (line 1438),
\* read from the data JSON
ExportDuration(e) == IF e.data # None THEN e.data ELSE 0

\* analytics_page: the 'duration' of the row of event e (line 1317), read
\* from the duration_minutes column and summed to total_duration
AnalyticsDuration(e) ==
    IF Truthy(e.duration_minutes) THEN e.duration_minutes ELSE 0

\* one session that creates events on each path: the add-event form, a
\* CSV import and the manual bulk form
NextDurations ==
    \E s \in {"s1"} :
        \/ Navigate(s)
        \/ AddEventSubmit(s)
        \/ bulk.via = "none" /\ ImportCSV(s)
        \/ bulk.via = "none" /\ ManualBulk(s)

SpecDurations == InitBulk /\ [][NextDurations]_vars

-----------------------------------------------------------------------------
(* analytics_page *)

\* the bounds of the stores the analytics page is run on: days
\* 0..MaxAnalyticsDay, up to MaxPerDay events on each of the first BusyDays
\* days and at most one on each later day
MaxAnalyticsDay == 7
BusyDays == (MaxAnalyticsDay + 1) \div 2
MaxPerDay == BusyDays - 1

AnalyticsDays == 0..MaxAnalyticsDay

\* a JSON null
Null == [null |-> TRUE]

\* the literal default of the .get() calls (lines 1314-1315)
Unknown == <<"U", "n", "k", "n", "o", "w", "n">>

\* mu_area(name) as the select embeds it in a category (line 210): the
\* area's row, or null when no area has the category's area_id
JoinedArea(c) ==
    IF \E a \in mu_area : a.id = c.area_id
    THEN [null |-> FALSE,
          name |-> (CHOOSE a \in mu_area : a.id = c.area_id).name]
    ELSE Null

\* mu_category(name, area_id, mu_area(name)) as the select embeds it in an
\* event (line 210): null when no category has the event's category_id
JoinedCategory(e) ==
    IF \E c \in mu_category : c.id = e.category_id
    THEN LET c == CHOOSE c \in mu_category : c.id = e.category_id
         IN  [null |-> FALSE, name |-> c.name, area_id |-> c.area_id,
              mu_area |-> JoinedArea(c)]
    ELSE Null

\* d.get(key, default) of a dict d: the default only when d has no such key
Get(d, key, default) == IF key \in DOMAIN d THEN d[key] ELSE default

\* the chained .get() calls of lines 1314-1315 raise AttributeError when the
\* value under 'mu_category' or under 'mu_area' is null: the key is there,
\* so .get() returns None and not its default
JoinRaises(e) ==
    LET mu_category_ == JoinedCategory(e) IN
    \/ mu_category_.null
    \/ Get(mu_category_, "mu_area", [null |-> FALSE]).null

weekday_order ==
    <<"Monday", "Tuesday", "Wednesday", "Thursday", "Friday", "Saturday",
      "Sunday">>

\* Series.dt.day_name() of a day number (day 0 is a Monday)
day_name(d) == weekday_order[(d % 7) + 1]

\* the row df_events gets for event e (lines 1311-1318); the id keeps equal
\* rows apart
DfRow(e) ==
    LET mu_category_ == JoinedCategory(e) IN
    [id |-> e.id,
     date |-> DateOf(e.occurred_at),
     weekday |-> day_name(DateOf(e.occurred_at)),
     area |-> Get(Get(mu_category_, "mu_area", [null |-> FALSE]),
                  "name", Unknown),
     category |-> Get(mu_category_, "name", Unknown)]

\* df['date'].nunique()
nunique(df) == Cardinality({r.date : r \in df})

Max(a, b) == IF a > b THEN a ELSE b

\* f"{n / d:.1f}" in tenths, cut off instead of rounded
FormatCutOff(n, d) == (10 * n) \div d

\* f"{n / d:.1f}" in tenths: n / d rounded to the nearest tenth, a tie to
\* the even one (for d < 20 every tie is a multiple of 1/4, which a float
\* holds exactly)
Format1f(n, d) ==
    LET tenths == (10 * n) \div d
        rest == (10 * n) % d
    IN  IF 2 * rest > d THEN tenths + 1
        ELSE IF 2 * rest < d THEN tenths
        ELSE IF tenths % 2 = 0 THEN tenths ELSE tenths + 1

\* df.groupby('weekday').size() without the reindex
GroupByWeekday(df) ==
    [w \in {r.weekday : r \in df} |-> Cardinality({r \in df : r.weekday = w})]

\* df.groupby('weekday').size().reindex(weekday_order).fillna(0) (line 1359)
weekday_counts(df) ==
    [w \in RowSet(weekday_order) |-> Cardinality({r \in df : r.weekday = w})]

\* df.groupby('area').size() (line 1369)
area_counts(df) ==
    [a \in {r.area : r \in df} |-> Cardinality({r \in df : r.area = a})]

\* df.groupby(['area', 'category']).size() (line 1383)
cat_counts(df) ==
    [k \in {<<r.area, r.category>> : r \in df} |->
        Cardinality({r \in df : <<r.area, r.category>> = k})]

\* the date ranges the page is given
AnalyticsRanges == {<<0, MaxAnalyticsDay>>, <<1, 2>>}

\* analytics_page (lines 1283-1392): the events of the date range are
\* loaded with no limit, offset or search text, so the list holds the rows of
\* the query, and nothing the page computes depends on their order
AnalyticsPage(s) ==
    LET st == init_session_state(session[s]) IN
    /\ Routed(st, "analytics")
    /\ \E range \in AnalyticsRanges, ok \in BOOLEAN :
        LET filters == Filters({}, {}, range[1], range[2], NoText)
            events == IF ok THEN EventsQuery(st.user_id, filters, TRUE) ELSE {}
            df == {DfRow(e) : e \in events}
            unique_days == nunique(df)
        IN
        /\ analytics' =
            IF events = {}
            THEN Analytics("empty", s, events, 0, 0, 0, NoCounts, NoCounts,
                           NoCounts)
            ELSE IF \E e \in events : JoinRaises(e)
            THEN Analytics("raised", s, events, 0, 0, 0, NoCounts, NoCounts,
                           NoCounts)
            ELSE Analytics("shown", s, events, Cardinality(df), unique_days,
                           Format1f(Cardinality(df), Max(unique_days, 1)),
                           weekday_counts(df), area_counts(df),
                           cat_counts(df))
        /\ out' = Output("analytics", s, None,
                         IF ~ok THEN "Error loading events"
                         ELSE IF events = {} THEN "No events found" ELSE "",
                         None, 0)
    /\ session' = [session EXCEPT ![s] = st]
    /\ calls' = <<>>
    /\ raised' = {}
    /\ form' = NoForm
    /\ UNCHANGED <<storeVars, q, pg, view, client_session, bulk>>

\* the areas and categories of u1: complete, with category 2 deleted, or
\* with area 2 deleted under its category
AnalyticsTaxonomies ==
    LET area(id, name) == [id |-> id, user_id |-> "u1", name |-> name]
        cat(id, area_id, name) ==
            [id |-> id, user_id |-> "u1", area_id |-> area_id, name |-> name]
    IN  {[areas |-> {area(1, <<"A">>), area(2, <<"B">>)},
          categories |-> {cat(1, 1, <<"a">>), cat(2, 2, <<"b">>)}],
         [areas |-> {area(1, <<"A">>), area(2, <<"B">>)},
          categories |-> {cat(1, 1, <<"a">>)}],
         [areas |-> {area(1, <<"A">>)},
          categories |-> {cat(1, 1, <<"a">>), cat(2, 2, <<"b">>)}]}

\* the events of u1, given how many each day has: the first event of a day
\* is in category 1, the next in category 2, and so on in turns
AnalyticsEvents(per_day) ==
    {EventRow(d * (MaxPerDay + 1) + k, "u1", IF k % 2 = 1 THEN 1 ELSE 2,
              d * TicksPerDay + (k % TicksPerDay)) :
        <<d, k>> \in {dk \in AnalyticsDays \X (1..MaxPerDay) :
                        dk[2] <= per_day[dk[1]]}}

AnalyticsStores ==
    {AnalyticsEvents(per_day) :
        per_day \in {f \in [AnalyticsDays -> 0..MaxPerDay] :
                        \A d \in AnalyticsDays : d >= BusyDays => f[d] <= 1}}

\* both sessions on the analytics page; u2 has no events
InitAnalytics ==
    /\ \E t \in AnalyticsTaxonomies :
        /\ mu_area = t.areas
        /\ mu_category = t.categories
    /\ mu_event \in AnalyticsStores
    /\ ids = [area |-> 2, category |-> 2,
              event |-> (MaxAnalyticsDay + 1) * (MaxPerDay + 1)]
    /\ q = NoCall
    /\ pg = NoPaging
    /\ analytics = NoAnalytics
    /\ view = NoView
    /\ session = OnPage("analytics")
    /\ client_session = "u2"
    /\ out = NoOutput
    /\ bulk = NoBulk
    /\ calls = <<>>
    /\ raised = {}
    /\ form = NoForm

NextAnalytics == \E s \in Sessions : AnalyticsPage(s)

SpecAnalytics == InitAnalytics /\ [][NextAnalytics]_vars

-----------------------------------------------------------------------------
(* Read calls with a search text *)

\* the comments of the stored events: null, and two texts
SearchComments == {NullText, <<"A", "b">>, <<"b">>}

\* the search texts a call is given
SearchTexts == {<<"a">>, <<"B">>}

\* up to MaxEvents events of u1 in category 1, ids 1..n, with comments
SearchStores ==
    LET Shape == Timestamps \X SearchComments
        Rank(sh) == 3 * sh[1] + (IF sh[2] = NullText THEN 0
                                 ELSE IF sh[2] = <<"b">> THEN 1 ELSE 2)
    IN  UNION {{{[EventRow(i, "u1", 1, g[i][1]) EXCEPT !.comment = g[i][2]] :
                    i \in 1..n} :
                  g \in {h \in [1..n -> Shape] :
                            \A i \in 1..n, j \in 1..n :
                                i < j => Rank(h[i]) <= Rank(h[j])}} :
              n \in 0..MaxEvents}

InitSearch ==
    /\ mu_area = QueryAreas
    /\ mu_category = QueryCategories(TRUE)
    /\ mu_event \in SearchStores
    /\ ids = [area |-> 3, category |-> 3, event |-> MaxEvents]
    /\ q = NoCall
    /\ pg = NoPaging
    /\ analytics = NoAnalytics
    /\ view = NoView
    /\ session = OnPage("dashboard")
    /\ client_session = "u2"
    /\ out = NoOutput
    /\ bulk = NoBulk
    /\ calls = <<>>
    /\ raised = {}
    /\ form = NoForm

\* a call of get_events by u1 for a page, with a search text or without
CallSearchEvents ==
    /\ q.fn = "none"
    /\ \E search_text \in {NoText} \cup SearchTexts, ok \in BOOLEAN,
          limit \in {None} \cup 1..MaxPageSize,
          offset \in {None} \cup 0..MaxEvents :
        LET filters == Filters({}, {}, None, None, search_text) IN
        \E rows \in get_events("u1", filters, limit, offset, TRUE, ok) :
            q' = [fn |-> "get_events", user_id |-> "u1", filters |-> filters,
                  limit |-> limit, offset |-> offset, cats_ok |-> TRUE,
                  ok |-> ok, rows |-> rows, count |-> None, found |-> {},
                  errors |-> get_events_errors(filters, TRUE, ok),
                  id |-> None, args |-> NoArgs]
    /\ UNCHANGED <<storeVars, pg, appVars>>

\* a call of get_event_count by u1, with a search text or without
CallSearchCount ==
    /\ q.fn = "none"
    /\ \E search_text \in {NoText} \cup SearchTexts, ok \in BOOLEAN :
        LET filters == Filters({}, {}, None, None, search_text) IN
            q' = [fn |-> "get_event_count", user_id |-> "u1",
                  filters |-> filters, limit |-> None, offset |-> None,
                  cats_ok |-> TRUE, ok |-> ok, rows |-> <<>>,
                  count |-> get_event_count("u1", filters, ok),
                  found |-> {}, errors |-> ReadErrors("get_event_count", ok),
                  id |-> None, args |-> NoArgs]
    /\ UNCHANGED <<storeVars, pg, appVars>>

NextSearch == CallSearchEvents \/ CallSearchCount

SpecSearch == InitSearch /\ [][NextSearch]_vars

-----------------------------------------------------------------------------
(* dashboard_page: statistics, pagination and filters *)

\* the largest number of events of the stores the pagination is run on
MaxTotal == 21

\* total_pages without rounding up
TotalPagesRoundedDown(total_events) == Max(1, total_events \div events_per_page)

\* total_pages (line 630)
total_pages(total_events) == Max(1, (total_events + events_per_page - 1) \div events_per_page)

\* what a run of dashboard_page shows for session state st (lines 626-669):
\* the selectbox raises when its index is no index of its options
\* (lines 652-657)
Render(s, st) ==
    LET total_events == get_event_count(st.user_id, SessionFilters(st), TRUE)
        pages == total_pages(total_events)
    IN  View(s, total_events, pages, st.current_page_num,
             PageOffset(st.current_page_num, events_per_page),
             pages > 1 /\ st.current_page_num - 1 \notin 0..(pages - 1))

\* a dashboard interaction that leaves session state st behind and shows
\* the dashboard again
Shown(s, op, st) ==
    /\ session' = [session EXCEPT ![s] = st]
    /\ view' = Render(s, st)
    /\ out' = Output(op, s, None, "", None, 0)
    /\ calls' = <<>>
    /\ raised' = {}
    /\ form' = NoForm
    /\ UNCHANGED <<storeVars, q, pg, analytics, client_session, bulk>>

\* Previous is clicked (lines 647-649)
PreviousClick(s) ==
    LET st == init_session_state(session[s]) IN
    /\ Routed(st, "dashboard")
    /\ Render(s, st).total_pages > 1
    /\ ~(st.current_page_num <= 1)
    /\ Shown(s, "previous", [st EXCEPT !.current_page_num = @ - 1])

\* a page is chosen in the selectbox (lines 651-659)
SelectPage(s) ==
    LET st == init_session_state(session[s]) IN
    /\ Routed(st, "dashboard")
    /\ Render(s, st).total_pages > 1
    /\ ~Render(s, st).raised
    /\ \E page_num \in 1..Render(s, st).total_pages :
        /\ page_num # st.current_page_num
        /\ Shown(s, "select_page", [st EXCEPT !.current_page_num = page_num])

\* Next is clicked (lines 661-663)
NextClick(s) ==
    LET st == init_session_state(session[s]) IN
    /\ Routed(st, "dashboard")
    /\ Render(s, st).total_pages > 1
    /\ ~Render(s, st).raised
    /\ ~(st.current_page_num >= Render(s, st).total_pages)
    /\ Shown(s, "next", [st EXCEPT !.current_page_num = @ + 1])

\* the category multiselect is changed (lines 563-572)
CategoryFilterChange(s) ==
    LET st == init_session_state(session[s])
        categories == get_user_categories(st.user_id, None, TRUE)
    IN
    /\ Routed(st, "dashboard")
    /\ categories # {}
    /\ \E selected_categories \in SUBSET {c.id : c \in categories} :
        /\ selected_categories # st.filter_categories
        /\ Shown(s, "filter",
                 [st EXCEPT !.filter_categories = selected_categories])

\* Clear All Filters is clicked (lines 603-610)
ClearFiltersClick(s) ==
    LET st == init_session_state(session[s]) IN
    /\ Routed(st, "dashboard")
    /\ Shown(s, "clear_filters",
             [st EXCEPT !.filter_areas = {}, !.filter_categories = {},
                        !.filter_date_from = None, !.filter_date_to = None,
                        !.filter_search = NoText, !.current_page_num = 1])

\* n events of u1: the first events_per_page in category 1, the others in
\* category 2
PagingEvents(n) ==
    {EventRow(i, "u1", IF i <= events_per_page THEN 1 ELSE 2, 0) : i \in 1..n}

InitPaging ==
    /\ mu_area = QueryAreas
    /\ mu_category = QueryCategories(TRUE)
    /\ \E n \in 0..MaxTotal : mu_event = PagingEvents(n)
    /\ ids = [area |-> 3, category |-> 3, event |-> MaxTotal]
    /\ q = NoCall
    /\ pg = NoPaging
    /\ analytics = NoAnalytics
    /\ view = NoView
    /\ session = OnPage("dashboard")
    /\ client_session = "u2"
    /\ out = NoOutput
    /\ bulk = NoBulk
    /\ calls = <<>>
    /\ raised = {}
    /\ form = NoForm

NextPaging ==
    \E s \in Sessions :
        \/ Navigate(s)
        \/ PreviousClick(s)
        \/ SelectPage(s)
        \/ NextClick(s)
        \/ CategoryFilterChange(s)
        \/ ClearFiltersClick(s)

SpecPaging == InitPaging /\ [][NextPaging]_vars

----------------------------------------------------------------------------
(* Properties of the read calls (checked under SpecQuery) *)

NoDates(filters) == [filters EXCEPT !.date_from = None, !.date_to = None]

InRange(t, a, b) ==
    /\ (a # None => a <= DateOf(t))
    /\ (b # None => DateOf(t) <= b)

\* C1: a get_events call with no filters, no limit and no offset, whose
\* backend query succeeds, returns exactly the events whose user_id is the
\* requesting user, each once: none of another user, none missing.
C1_OwnershipOnly ==
    (q.fn = "get_events" /\ q.ok /\ ~HasFilters(q.filters)
        /\ q.limit = None /\ q.offset = None)
    => /\ RowSet(q.rows) = {e \in mu_event : e.user_id = q.user_id}
       /\ Len(q.rows) = Cardinality(RowSet(q.rows))

\* C1 witness: an unfiltered call answered with some of the user's events
\* while the store also holds an event of the other user
C1_Witness ==
    /\ q.fn = "get_events" /\ q.ok /\ ~HasFilters(q.filters)
    /\ Len(q.rows) >= 1
    /\ \E e \in mu_event : e.user_id # q.user_id

\* C2: the total get_event_count returns equals the number of events
\* get_events returns for the same user and filters without limit/offset.
C2_CountEqualsListLength ==
    (q.fn = "get_event_count" /\ q.ok)
    => \A rows \in get_events(q.user_id, q.filters, None, None, TRUE, TRUE) :
            q.count = Len(rows)

\* C4: with date_from = a and/or date_to = b, get_events returns exactly
\* those events, among the ones the other filters select, whose date portion
\* of occurred_at lies in [a, b] (the whole end day included); and
\* get_event_count counts by the same range.
C4_DateRange ==
    /\ (q.fn = "get_events" /\ q.ok
          /\ (q.filters.date_from # None \/ q.filters.date_to # None))
       => RowSet(q.rows) =
            {e \in EventsQuery(q.user_id, NoDates(q.filters), q.cats_ok) :
                InRange(e.occurred_at, q.filters.date_from, q.filters.date_to)}
    /\ (q.fn = "get_event_count" /\ q.ok
          /\ (q.filters.date_from # None \/ q.filters.date_to # None))
       => q.count = Cardinality(
            {e \in CountQuery(q.user_id, NoDates(q.filters)) :
                InRange(e.occurred_at, q.filters.date_from, q.filters.date_to)})

\* C4 witness: a one-day range [d, d] that returns an event at the last tick
\* of day d and leaves out an event of the same user on another day
C4_Witness ==
    /\ q.fn = "get_events" /\ q.ok
    /\ q.filters.date_from # None /\ q.filters.date_from = q.filters.date_to
    /\ \E e \in RowSet(q.rows) :
            e.occurred_at = isoformat(q.filters.date_to) + TicksPerDay - 1
    /\ \E e \in mu_event \ RowSet(q.rows) : e.user_id = q.user_id

\* C5: when the filters name a non-empty set of area ids (and the category
\* lookup succeeds), every event get_events returns has a category whose
\* area_id is in that set; areas without categories select no event.
C5_AreaFilter ==
    (q.fn = "get_events" /\ q.ok /\ q.cats_ok /\ q.filters.area_ids # {})
    => \A e \in RowSet(q.rows) :
            \E c \in mu_category :
                c.id = e.category_id /\ c.area_id \in q.filters.area_ids

----------------------------------------------------------------------------
(* Properties of the pages *)

\* C6: a run of the delete-area action on an area that has at least one
\* category, whatever its backend calls do, removes nothing: it shows the
\* rejection message and leaves the area and category rows as they are.
C6_AreaWithCategoriesKept ==
    [][(out'.op = "delete_area"
            /\ \E c \in mu_category : c.area_id = out'.id)
        => /\ mu_area' = mu_area
           /\ mu_category' = mu_category
           /\ out'.msg = "Cannot delete area with categories"]_vars

\* C7: in every reachable store state every event's category_id is the id
\* of a category of the same user, and every category's area_id is the id of
\* an area of the same user.
C7_ReferentialIntegrity ==
    /\ \A e \in mu_event :
          \E c \in mu_category :
              c.id = e.category_id /\ c.user_id = e.user_id
    /\ \A c \in mu_category :
          \E a \in mu_area : a.id = c.area_id /\ a.user_id = c.user_id

\* C8: a step removes an event only as the Confirm click of a session whose
\* pending-delete flag was that event's id; it removes that event alone and
\* leaves the flag at None; and a step that sets a pending-delete flag to an
\* event id leaves the events as they are.
C8_TwoStepDelete ==
    [][/\ (\E x \in mu_event : \A r \in mu_event' : r.id # x.id)
          => \E s \in Sessions, e \in mu_event :
                /\ session[s].delete_confirm_id = e.id
                /\ e.user_id = session[s].user_id
                /\ mu_event' = mu_event \ {e}
                /\ session'[s].delete_confirm_id = None
                /\ out'.op = "confirm_delete" /\ out'.s = s /\ out'.id = e.id
       /\ \A s \in Sessions :
            (session'[s].delete_confirm_id # session[s].delete_confirm_id
                /\ session'[s].delete_confirm_id # None)
            => mu_event' = mu_event]_vars

\* C8 witness: a Confirm click has deleted the pending event of its session
\* and the flag is back to None
C8_Witness ==
    /\ out.op = "confirm_delete" /\ out.msg = "Event deleted"
    /\ session[out.s].delete_confirm_id = None
    /\ \A e \in mu_event : e.id # out.id
    /\ mu_event # {}

\* C9: a call bulk_add_events(events, u) either returns success with count
\* = len(events), and then the table has gained exactly one row for each
\* input dict, each with user_id = u (whatever user_id the dict had) and a
\* created_at; or it returns the one error, with no count, and the table is
\* as it was.
C9_BulkAllOrNothing ==
    [][(bulk' # bulk /\ bulk'.called)
        => LET events == bulk'.events_data
               new == mu_event' \ mu_event
           IN  IF bulk'.success
               THEN /\ bulk'.count = Len(events)
                    /\ mu_event \subseteq mu_event'
                    /\ Cardinality(new) = Len(events)
                    /\ \A i \in 1..Len(events) :
                          \E r \in new :
                              /\ r.id = bulk'.first_id + i - 1
                              /\ r.user_id = bulk'.user_id
                              /\ r.created_at = "now"
                              /\ r.category_id = events[i].category_id
                              /\ r.occurred_at = events[i].occurred_at
               ELSE /\ mu_event' = mu_event
                    /\ bulk'.count = None
                    /\ bulk'.error = "error"]_vars

\* C9 witness: a successful call with two dicts, one of which carried the
\* user_id of another user, whose rows are now the caller's
C9_Witness ==
    /\ bulk.via = "call" /\ bulk.success /\ bulk.count = 2
    /\ \E i \in 1..Len(bulk.events_data) :
          bulk.events_data[i].user_id \notin {"none", bulk.user_id}
    /\ \A r \in mu_event : r.id >= bulk.first_id => r.user_id = bulk.user_id

\* a row the CSV import is to skip: a category_id that is no number, an
\* occurred_at that is no timestamp, a duration_minutes that is no number
Malformed(row) ==
    \/ row.category_id.kind # "num"
    \/ row.occurred_at.kind # "num"
    \/ row.duration_minutes.kind = "text"

\* C10: a CSV import of a file of N rows of which k are malformed gives a
\* warning for each of the k rows and submits the N - k others; when the
\* store takes the insert the reported count is N - k.
C10_MalformedRowsSkipped ==
    bulk.via = "csv"
    => LET N == Len(bulk.file)
           k == Cardinality({i \in 1..N : Malformed(bulk.file[i])})
       IN  /\ out.warnings = k
           /\ Len(bulk.events_data) = N - k
           /\ (bulk.ok /\ N > k) => (bulk.success /\ bulk.count = N - k)

\* C11: only the session an action runs in changes its state, and a
\* session becomes authenticated as a user only by a sign-in of its own.
C11_SessionsIsolated ==
    [][\A s \in Sessions :
        /\ session'[s] # session[s] => out'.s = s
        /\ (session'[s].authenticated
                /\ session'[s].user_id # session[s].user_id)
           => (out'.s = s /\ out'.op = "sign_in"
                 /\ calls' = <<"sign_in">>)]_vars

\* a backend call of the read call q records has failed
BackendFailed ==
    \/ ~q.ok
    \/ (q.fn = "get_events" /\ q.filters.area_ids # {} /\ ~q.cats_ok)

\* C12: when a backend call inside get_events, get_event_count,
\* get_user_areas or get_user_categories fails, the operation returns the
\* empty result ([] or 0) and reports an error message.
C12_FailureGivesEmpty ==
    (q.fn # "none" /\ BackendFailed)
    => /\ q.errors # {}
       /\ q.rows = <<>>
       /\ q.found = {}
       /\ (q.fn = "get_event_count" => q.count = 0)

\* a text of blanks only, the empty text among them
Blank(text) == \A i \in 1..Len(text) : text[i] = " "

\* the form submitted last is invalid input
InvalidForm ==
    CASE form.kind = "sign_in" -> form.email = "none" \/ form.password = ""
      [] form.kind = "register" ->
            \/ form.email = "none" \/ form.full_name = <<>>
            \/ form.password = <<>>
            \/ form.password # form.password_confirm
            \/ Len(form.password) < 6
      [] form.kind \in {"add_area", "add_category"} -> Blank(form.name)
      [] form.kind = "add_event" -> form.selected_category_id = None
      [] OTHER -> FALSE

ValidationMessages ==
    {"Please enter both email and password", "Please fill in all fields",
     "Passwords do not match", "Password must be at least 6 characters",
     "Area name cannot be empty", "Category name cannot be empty",
     "Please select a category"}

C14_WritesScopedToOwner ==
    [][q'.fn \in {"delete_event", "update_event"}
        => LET target == {e \in mu_event :
                            e.id = q'.id /\ e.user_id = q'.user_id}
           IN  /\ \A e \in mu_event \ target : e \in mu_event'
               /\ target = {} => mu_event' = mu_event
               /\ (q'.fn = "delete_event" /\ q'.ok)
                    => mu_event' = mu_event \ target
               /\ (q'.fn = "update_event" /\ q'.ok)
                    => /\ Cardinality(mu_event') = Cardinality(mu_event)
                       /\ \A e \in target :
                            \E r \in mu_event' :
                                /\ r.id = e.id /\ r.user_id = e.user_id
                                /\ r.created_at = e.created_at
                                /\ r.category_id = q'.args.category_id
                                /\ r.occurred_at = q'.args.occurred_at
                                /\ r.comment = q'.args.comment]_vars

\* C14 witness: a delete_event call that reached the store with the id of
\* an event of the other user, which is still there
C14_Witness ==
    /\ q.fn = "delete_event" /\ q.ok
    /\ \E e \in mu_event : e.id = q.id /\ e.user_id # q.user_id

\* the write calls of DataManager the pages make
WriteCalls ==
    {"add_area", "delete_area", "add_category", "delete_category",
     "add_event", "delete_event"}

\* the message the except clause of a write call shows
WriteErrorOf(fn) ==
    CASE fn = "add_area" -> "Error adding area"
      [] fn = "delete_area" -> "Error deleting area"
      [] fn = "add_category" -> "Error adding category"
      [] fn = "delete_category" -> "Error deleting category"
      [] fn = "add_event" -> "Error adding event"
      [] fn = "delete_event" -> "Error deleting event"

\* C15: when the write a page handler makes raises, the write was called
\* once in that run, the tables are as before, its error message is shown,
\* and the session state is as before (the pending-delete flag is still on
\* the event, last_area_id and last_category_id are not set); an
\* update_event call that raises leaves the tables as they are and shows
\* its error.
C15_FailedWriteIsNoOp ==
    [][/\ \A fn \in WriteCalls :
            (q' = q /\ fn \in raised')
            => /\ Cardinality({i \in 1..Len(calls') : calls'[i] = fn}) = 1
               /\ UNCHANGED storeVars
               /\ out'.msg = WriteErrorOf(fn)
               /\ session' = session
       /\ (q' # q /\ q'.fn = "update_event" /\ ~q'.ok)
            => /\ UNCHANGED storeVars
               /\ q'.errors = {"Error updating event"}]_vars

\* C15 witness: the delete of the pending event raised, and the event is
\* still pending
C15_Witness ==
    /\ "delete_event" \in raised
    /\ \E e \in mu_event : session["s1"].delete_confirm_id = e.id

-----------------------------------------------------------------------------
(* Properties of the analytics page (checked under SpecAnalytics) *)

RECURSIVE SumOf(_, _)
SumOf(f, keys) ==
    IF keys = {} THEN 0
    ELSE LET k == CHOOSE k \in keys : TRUE
         IN  f[k] + SumOf(f, keys \ {k})

WeekdayNames ==
    {"Monday", "Tuesday", "Wednesday", "Thursday", "Friday", "Saturday",
     "Sunday"}

ActiveDays == Cardinality({DateOf(e.occurred_at) : e \in analytics.events})

\* C17: the average shown, in tenths, is total / max(distinct dates, 1)
\* rounded to one decimal: it differs from the quotient by at most half a
\* tenth, the divisor is never 0, and 10 events on 4 distinct days give 2.5
C17_AveragePerDay ==
    analytics.state = "shown"
    => LET total == Cardinality(analytics.events)
           days == IF ActiveDays > 1 THEN ActiveDays ELSE 1
           diff == 10 * total - analytics.avg_per_day * days
       IN  /\ days > 0
           /\ 2 * diff <= days /\ 2 * (0 - diff) <= days
           /\ (total = 10 /\ ActiveDays = 4) => analytics.avg_per_day = 25

\* C17 witness: 10 events on 4 distinct days
C17_Witness ==
    /\ analytics.state = "shown"
    /\ Cardinality(analytics.events) = 10 /\ ActiveDays = 4

\* the events whose category, or whose category's area, is missing
Orphans(events) ==
    {e \in events :
        \/ \A c \in mu_category : c.id # e.category_id
        \/ \E c \in mu_category :
            c.id = e.category_id /\ \A a \in mu_area : a.id # c.area_id}

\* C18: when the events the analytics page loaded include events whose
\* category or area is missing, the page aggregates them and counts them
\* under "Unknown" in by_area
C18_OrphansCountedUnknown ==
    (analytics.state # "none" /\ Orphans(analytics.events) # {})
    => /\ analytics.state = "shown"
       /\ Unknown \in DOMAIN analytics.by_area
       /\ analytics.by_area[Unknown] = Cardinality(Orphans(analytics.events))

-----------------------------------------------------------------------------
(* Properties of the dashboard's navigation (checked under SpecDashboard) *)

\* C19: a session that comes back to the dashboard from another page has no
\* event pending deletion: every row shows Delete, not Confirm.
C19_PendingResetOnNavigation ==
    [][\A s \in Sessions :
        (session[s].current_page # "dashboard"
            /\ session'[s].current_page = "dashboard")
        => session'[s].delete_confirm_id = None]_vars

-----------------------------------------------------------------------------
(* Properties of the text search (checked under SpecSearch) *)

\* two characters that are the same letter
SameLetter(a, b) ==
    \/ a = b
    \/ {a, b} = {"A", "a"}
    \/ {a, b} = {"B", "b"}

\* text hay contains text needle, whatever the case of the letters
ContainsAnyCase(needle, hay) ==
    \E i \in 0..(Len(hay) - Len(needle)) :
        \A k \in 1..Len(needle) : SameLetter(hay[i + k], needle[k])

\* the text of a comment, a null comment being empty
CommentText(e) == IF e.comment = NullText THEN <<>> ELSE e.comment

\* C20: a get_events call with a search text returns the events of the page
\* the same call without the search text retrieves whose comment contains
\* the text in any case, in the page's order; get_event_count with a search
\* text counts all the events of the user.
C20_SearchOnPageOnly ==
    /\ (q.fn = "get_events" /\ q.ok /\ q.filters.search_text # NoText)
        => \E page \in get_events(q.user_id,
                                  [q.filters EXCEPT !.search_text = NoText],
                                  q.limit, q.offset, TRUE, TRUE) :
            LET Keep(e) == ContainsAnyCase(q.filters.search_text,
                                           CommentText(e))
            IN  q.rows = SelectSeq(page, Keep)
    /\ (q.fn = "get_event_count" /\ q.ok)
        => q.count = Cardinality({e \in mu_event : e.user_id = q.user_id})

\* C20 witness: a search that returned an event of its page while another
\* event of the user with the text in its comment is on another page
C20_Witness ==
    /\ q.fn = "get_events" /\ q.ok /\ q.filters.search_text # NoText
    /\ q.rows # <<>>
    /\ \E e \in mu_event :
        /\ e.user_id = q.user_id
        /\ ContainsAnyCase(q.filters.search_text, CommentText(e))
        /\ e \notin RowSet(q.rows)

-----------------------------------------------------------------------------
(* Properties of the dashboard's pagination (checked under SpecPaging) *)

\* C21: the page count the dashboard shows is the number of events divided
\* by the page size of 10, rounded up, and at least 1: 0 events give 1 page,
\* 10 give 1, 11 give 2.
C21_TotalPages ==
    view.s # "none"
    => /\ view.total_pages >= 1
       /\ view.total_events = 0 => view.total_pages = 1
       /\ view.total_events > 0
            => /\ 10 * (view.total_pages - 1) < view.total_events
               /\ view.total_events <= 10 * view.total_pages
       /\ view.total_events = 10 => view.total_pages = 1
       /\ view.total_events = 11 => view.total_pages = 2

\* C21 witness: the dashboard shown with 11 events
C21_Witness == view.s # "none" /\ view.total_events = 11

\* C23: the page number of every session on the dashboard is a page of the
\* list its filters select: between 1 and the page count.
C23_PageNumInRange ==
    \A s \in Sessions :
        Routed(session[s], "dashboard")
        => LET total_events ==
                   Cardinality({e \in mu_event :
                       /\ e.user_id = session[s].user_id
                       /\ (session[s].filter_categories # {}
                            => e.category_id \in session[s].filter_categories)})
               pages == IF total_events = 0 THEN 1
                        ELSE (total_events + 9) \div 10
           IN  /\ 1 <= session[s].current_page_num
               /\ session[s].current_page_num <= pages

-----------------------------------------------------------------------------
(* Further properties of the analytics page (checked under SpecAnalytics) *)

\* C22: when the analytics page has loaded no event, it shows the
\* aggregation of no events: total 0, no active day, average 0, no area and
\* no category, and the seven weekdays with 0 each.
C22_EmptyGivesZeros ==
    (analytics.state # "none" /\ analytics.events = {})
    => /\ analytics.state = "shown"
       /\ analytics.total = 0
       /\ analytics.unique_days = 0
       /\ analytics.avg_per_day = 0
       /\ DOMAIN analytics.by_area = {}
       /\ DOMAIN analytics.by_category = {}
       /\ DOMAIN analytics.by_weekday = WeekdayNames
       /\ \A w \in WeekdayNames : analytics.by_weekday[w] = 0

-----------------------------------------------------------------------------
(* Properties of the Edit button (checked under SpecEditClick) *)

\* C24: after Edit is clicked on event X, the session is routed to the edit
\* page with X as the event to edit: current_page is 'edit_event' and
\* editing_event_id is X when main() routes.
C24_EditReachesEditPage ==
    [][\A s \in Sessions :
        (/\ out'.op = "edit_click" /\ out'.s = s
         /\ (out' # out
             \/ session'[s].editing_event_id # session[s].editing_event_id))
        => /\ session'[s].editing_event_id = out'.id
           /\ session'[s].current_page = "edit_event"]_vars

-----------------------------------------------------------------------------
(* Properties of the edit form (checked under SpecEditForm)                 *)

\* C25: after a successful Save Changes with duration d the event's
\* duration_minutes is d when d > 0 and null when d = 0, and a form
\* submitted with the duration the page showed leaves duration_minutes as
\* it was
C25_EditSetsDuration ==
    (form.kind = "edit_event" /\ form.ok) =>
        \A e \in mu_event :
            e.id = form.event.id =>
                /\ e.duration_minutes =
                        IF form.duration > 0 THEN form.duration ELSE None
                /\ form.duration = current_duration(form.event) =>
                        e.duration_minutes = form.event.duration_minutes

-----------------------------------------------------------------------------
(* Properties of signing in and out (checked under SpecAuth)                *)

\* C26: the run that follows a click on Sign Out leaves the session
\* unauthenticated, whether the provider's sign_out succeeded or raised,
\* and an unauthenticated session becomes authenticated only by a
\* successful sign-in of its own
C26_SignedOutUntilSignIn ==
    [][\A s \in Sessions :
        /\ (out'.op = "sign_out" /\ out'.s = s) => ~session'[s].authenticated
        /\ (~session[s].authenticated /\ session'[s].authenticated)
           => (out'.op = "sign_in" /\ out'.s = s
                 /\ out'.msg = "Successfully signed in")]_vars

\* the last run was a sign-in with the right credentials of the account
\* whose email is not confirmed
UnconfirmedSignIn ==
    /\ out.op = "sign_in"
    /\ calls = <<"sign_in">>
    /\ raised = {}
    /\ form.kind = "sign_in"
    /\ form.email = Unconfirmed
    /\ form.password = "good"

\* C27: an authenticated session holds a user whose email is confirmed and
\* the user_id of that user; a sign-in with the right credentials of an
\* account whose email is not confirmed leaves the session unauthenticated
\* and sets email_not_confirmed
C27_AuthenticatedIsConfirmed ==
    /\ \A s \in Sessions :
        session[s].authenticated =>
            /\ session[s].user \in Users
            /\ session[s].user_id = session[s].user
    /\ UnconfirmedSignIn =>
            /\ ~session[out.s].authenticated
            /\ session[out.s].email_not_confirmed

\* a session is turned away for its unconfirmed email while another one is
\* authenticated
C27_Witness ==
    /\ UnconfirmedSignIn
    /\ session[out.s].email_not_confirmed
    /\ \E s \in Sessions : session[s].authenticated

-----------------------------------------------------------------------------
(* Properties of the routing (checked under SpecGuard)                      *)

\* the calls of the auth provider
AuthCalls == {"sign_in", "sign_up", "sign_out"}

\* the store calls among the calls of the last run
StoreCalls(cs) == {cs[i] : i \in 1..Len(cs)} \ AuthCalls

\* the rows by which two states of a table differ
Touched(old, new) == (old \ new) \cup (new \ old)

\* C28: a run that issues a store operation belongs to a session that is
\* authenticated, and the operation carries that session's user_id; a
\* session that is not authenticated is shown the login page only and
\* issues no store operation
C28_StoreOnlyWhenAuthenticated ==
    [][LET st == session'[out'.s]
           rows == Touched(mu_area, mu_area')
                       \cup Touched(mu_category, mu_category')
                       \cup Touched(mu_event, mu_event')
       IN  /\ (rows # {} \/ StoreCalls(calls') # {}) =>
                /\ st.authenticated
                /\ \A r \in rows : r.user_id = st.user_id
                /\ out'.op = "show" => q'.user_id = st.user_id
           /\ (out'.op = "show" /\ ~st.authenticated) =>
                /\ out'.msg = "login"
                /\ calls' = <<>>]_vars

\* a session that has signed out is shown the login page while the other
\* session's rows are in the store
C28_Witness ==
    /\ out.op = "show"
    /\ out.msg = "login"
    /\ ~session[out.s].authenticated
    /\ \E a \in mu_area : a.user_id \in Users
    /\ \E s \in Sessions : session[s].authenticated

-----------------------------------------------------------------------------
(* Properties of the stored durations (checked under SpecDurations)         *)

\* C29: for every stored event, whichever way it was created, the duration
\* of its export row equals the duration analytics adds to total_duration
C29_ExportMatchesAnalytics ==
    \A e \in mu_event : ExportDuration(e) = AnalyticsDuration(e)
====
